---- MODULE Spec2Model ----
(***************************************************************************)
(* A model of lddc_fetch_core: the fetch coordinator (fetch.py), the HTTP  *)
(* server (server.py), the provider bootstrap latches (providers/*.py) and *)
(* the TTL cache (cache.py).                                               *)
(***************************************************************************)
EXTENDS Integers, Sequences, FiniteSets, TLC

\* Python's None, for each type that may hold it: a timestamp (int | None), a
\* text (str | None) and a lyric track (LyricsData | None).  Each is a value of
\* its own type that no real timestamp, text or track equals.
NoTime == 0 - 1

NoText == <<"None">>

\* models.Source, in declaration order.
Source == {"LRCLIB", "QM", "KG", "NE"}

SourceOrdinal(s) ==
  CASE s = "LRCLIB" -> 0
    [] s = "QM" -> 1
    [] s = "KG" -> 2
    [] s = "NE" -> 3

(***************************************************************************)
(* Text.  A Python str is a sequence of one-character strings.             *)
(***************************************************************************)
RECURSIVE StripLeft(_)
StripLeft(s) ==
  IF s # <<>> /\ Head(s) = " " THEN StripLeft(Tail(s)) ELSE s

RECURSIVE StripRight(_)
StripRight(s) ==
  IF s # <<>> /\ s[Len(s)] = " " THEN StripRight(SubSeq(s, 1, Len(s) - 1)) ELSE s

\* str.strip()
Strip(s) == StripRight(StripLeft(s))

\* The truth value of a str | None.
TruthyText(x) == x # NoText /\ Len(x) > 0

(***************************************************************************)
(* The lyric model (models.py).                                            *)
(***************************************************************************)
LyricsWord(start, end, text) == [start |-> start, end |-> end, text |-> text]

LyricsLine(start, end, words) == [start |-> start, end |-> end, words |-> words]

RECURSIVE JoinWords(_)
JoinWords(words) ==
  IF words = <<>> THEN <<>> ELSE Head(words).text \o JoinWords(Tail(words))

\* LyricsLine.text()
LineText(line) == JoinWords(line.words)

\* None in a LyricsData | None field.
NoData == << LyricsLine(NoTime, NoTime, << LyricsWord(NoTime, NoTime, NoText) >>) >>

\* The truth value of a LyricsData | None.
Truthy(x) == x # NoData /\ Len(x) > 0

LyricsBundle(song, orig, ts) == [song |-> song, orig |-> orig, ts |-> ts, roma |-> NoData]

\* fetch._clean_lyrics_data: drop the "//" placeholder lines.
CleanLyricsData(data) ==
  SelectSeq(data, LAMBDA line : Strip(LineText(line)) # <<"/", "/">>)

\* fetch._clean_lyrics_bundle
CleanLyricsBundle(bundle) ==
  [bundle EXCEPT
     !.orig = IF Truthy(bundle.orig) THEN CleanLyricsData(bundle.orig) ELSE bundle.orig,
     !.ts = IF Truthy(bundle.ts) THEN CleanLyricsData(bundle.ts) ELSE bundle.ts,
     !.roma = IF Truthy(bundle.roma) THEN CleanLyricsData(bundle.roma) ELSE bundle.roma]

\* A line with a timed word is enough, however many words it has.
IsVerbatimAnyLength(bundle) ==
  /\ Truthy(bundle.orig)
  /\ \E i \in 1..Len(bundle.orig) :
       \E j \in 1..Len(bundle.orig[i].words) : bundle.orig[i].words[j].start # NoTime

\* fetch._is_verbatim
IsVerbatim(bundle) ==
  /\ Truthy(bundle.orig)
  /\ \E i \in 1..Len(bundle.orig) :
       /\ Len(bundle.orig[i].words) > 1
       /\ \E j \in 1..Len(bundle.orig[i].words) : bundle.orig[i].words[j].start # NoTime

(***************************************************************************)
(* Scoring (match.py).  Scores are kept in hundredths: 72.5 is 7250.       *)
(***************************************************************************)
Max(a, b) == IF a >= b THEN a ELSE b

Min(a, b) == IF a <= b THEN a ELSE b

RECURSIVE CommonPrefixLen(_, _)
CommonPrefixLen(a, b) ==
  IF a = <<>> \/ b = <<>> \/ Head(a) # Head(b) THEN 0
  ELSE 1 + CommonPrefixLen(Tail(a), Tail(b))

\* match.text_difference, in percent.  difflib's ratio is 2*M/T with M the
\* number of matched characters; on the titles and artists used here (equal,
\* extended by a suffix, or disjoint) M is the length of the common prefix.
TextDifference(text1, text2) ==
  IF text1 = text2 THEN 100
  ELSE (200 * CommonPrefixLen(text1, text2)) \div (Len(text1) + Len(text2))

\* match.normalize_title / normalize_artist on texts with no full-width
\* symbol, tag or upper-case letter: the surrounding blanks are removed.
NormalizeTitle(title) == Strip(title)

\* match.score_candidate
ScoreCandidate(title, artist, cand_title, cand_artist) ==
  LET t1 == NormalizeTitle(title)
      t2 == NormalizeTitle(IF cand_title = NoText THEN <<>> ELSE cand_title)
      title_score == TextDifference(t1, t2)
      score == IF TruthyText(artist) /\ TruthyText(cand_artist)
               THEN title_score * 55
                    + TextDifference(NormalizeTitle(artist), NormalizeTitle(cand_artist)) * 45
               ELSE title_score * 100
      penalised == IF title_score < 30 THEN Max(0, score - 35 * 100) ELSE score
  IN Max(0, penalised)

(***************************************************************************)
(* Bounds and the values the environment (callers, upstream services) may  *)
(* supply.                                                                 *)
(***************************************************************************)
\* The largest max_candidates a caller passes (0 is passed too).
MaxCand == 2

\* fetch_lyrics_bundle's default min_score, 55.0.
MinScore == 55 * 100

RequestTitles == {<<>>, <<" ">>, <<"t">>}

RequestArtists == {NoText, <<"a">>}

CandTitles == {<<"t">>, <<"t", "u", "v">>, <<"x">>}

CandArtists == {<<"a">>}

SourceLists == {<<"QM">>, <<"LRCLIB", "QM">>, <<"QM", "LRCLIB">>}

LrcModes == {"line", "verbatim"}

TranslationModes == {"none", "provider", "openai", "auto"}

Song(source, id, title, artist) ==
  [source |-> source, id |-> id, title |-> title, artist |-> artist]

NoSong == Song("None", 0, NoText, NoText)

\* What provider `src` may return from search(): nothing, one song of its own
\* source, one song listed twice, or two songs with the weaker match first.
SongsOf(src) == {Song(src, 1, t, a) : t \in CandTitles, a \in CandArtists}

SearchResults(src) ==
  {<<>>} \cup {<<s>> : s \in SongsOf(src)}
    \cup {<<Song(src, 1, <<"t">>, <<"a">>), Song(src, 1, <<"t">>, <<"a">>)>>,
          <<Song(src, 1, <<"t", "u", "v">>, <<"a">>), Song(src, 1, <<"t">>, <<"a">>)>>}

\* The lines upstream lyrics are made of: a plain line, a line with word
\* timing, the "//" placeholder QM sends, and a translated line.
LnPlain == LyricsLine(1, 2, << LyricsWord(NoTime, NoTime, <<"a">>) >>)

LnVerb == LyricsLine(1, 3, << LyricsWord(1, 2, <<"a">>), LyricsWord(2, 3, <<"b">>) >>)

\* One word, timed.
LnOne == LyricsLine(1, 2, << LyricsWord(1, 2, <<"a">>) >>)

LnSlash == LyricsLine(0, 1, << LyricsWord(NoTime, NoTime, <<"/">>), LyricsWord(NoTime, NoTime, <<"/">>) >>)

LnTrans == LyricsLine(1, 2, << LyricsWord(NoTime, NoTime, <<"c">>) >>)

OrigShapes == {NoData, <<>>, <<LnSlash, LnPlain>>, <<LnVerb>>}

TsShapes == {NoData, <<>>, <<LnSlash, LnTrans>>}

\* The bundles get_lyrics(song) may return; one has nothing but placeholders,
\* one a single line of one timed word.
BundlesOf(song) ==
  {LyricsBundle(song, o, t) : o \in OrigShapes, t \in TsShapes}
    \cup {LyricsBundle(song, <<LnSlash>>, NoData), LyricsBundle(song, <<LnOne>>, NoData)}

\* The texts the translation service may answer with for one line.
TransTexts == {<<"c">>, <<"/", "/">>}

(***************************************************************************)
(* The fetch coordinator's pure parts (fetch.py).                          *)
(***************************************************************************)
\* fetch._keyword_variants
KeywordVariants(title, artist) ==
  LET t == Strip(title)
      a == IF TruthyText(artist) THEN Strip(artist) ELSE NoText
  IN IF t = <<>> THEN <<>>
     ELSE IF TruthyText(a) THEN << a \o <<" ", "-", " ">> \o t, a \o <<" ">> \o t, t >>
     ELSE << t >>

\* The dict key of fetch.py line 104; album and duration_ms are the same for
\* every song here and left out.
SongKey(song) == <<song.source, song.id, song.title, song.artist>>

\* One pass of the loop body of lines 100-107 over `scored`, a dict kept as
\* the sequence of its values in insertion order.
ScoredUpdate(scored, song, s) ==
  IF s < MinScore THEN scored
  ELSE IF \E i \in 1..Len(scored) : SongKey(scored[i].song) = SongKey(song)
       THEN LET i == CHOOSE j \in 1..Len(scored) : SongKey(scored[j].song) = SongKey(song)
            IN IF s > scored[i].score
               THEN [scored EXCEPT ![i] = [score |-> s, song |-> song]]
               ELSE scored
       ELSE Append(scored, [score |-> s, song |-> song])

RECURSIVE ScoreResults(_, _, _, _)
ScoreResults(scored, results, title, artist) ==
  IF results = <<>> THEN scored
  ELSE LET song == Head(results)
           s == ScoreCandidate(title, artist, song.title, song.artist)
       IN ScoreResults(ScoredUpdate(scored, song, s), Tail(results), title, artist)

\* Insert x behind every element whose score is at least x's.
RECURSIVE InsertByScoreDesc(_, _)
InsertByScoreDesc(sorted, x) ==
  IF sorted = <<>> THEN <<x>>
  ELSE IF Head(sorted).score >= x.score
       THEN <<Head(sorted)>> \o InsertByScoreDesc(Tail(sorted), x)
       ELSE <<x>> \o sorted

\* sorted(xs, key=score, reverse=True): stable, equal scores keep their order.
RECURSIVE SortedByScoreDesc(_)
SortedByScoreDesc(xs) ==
  IF xs = <<>> THEN <<>>
  ELSE InsertByScoreDesc(SortedByScoreDesc(SubSeq(xs, 1, Len(xs) - 1)), xs[Len(xs)])

\* xs[:n]
Take(xs, n) == SubSeq(xs, 1, Min(Len(xs), Max(n, 0)))

\* The first max_candidates values of the dict, as inserted.
TopCandidatesUnsorted(scored, max_candidates) == Take(scored, max_candidates)

\* fetch.py line 114
TopCandidates(scored, max_candidates) == Take(SortedByScoreDesc(scored), max_candidates)

\* tuple.index, 0-based; only used when x is in xs.
IndexOf(xs, x) == (CHOOSE i \in 1..Len(xs) : xs[i] = x /\ \A j \in 1..(i - 1) : xs[j] # x) - 1

InSeq(xs, x) == \E i \in 1..Len(xs) : xs[i] = x

\* The position in `sources` without the sign: a later source ranks higher.
SourcePriorityUnsigned(sources, src) == IF InSeq(sources, src) THEN IndexOf(sources, src) ELSE 0

\* The last component of rank(): the position in `sources`, negated.
SourcePriority(sources, src) == IF InSeq(sources, src) THEN 0 - IndexOf(sources, src) ELSE 0

\* fetch_lyrics_bundle.rank
Rank(item, mode, translation, sources) ==
  << item.cand.score,
     IF mode # "line" /\ IsVerbatim(item.bundle) THEN 1 ELSE 0,
     IF translation # "none" /\ Truthy(item.bundle.ts) THEN 1 ELSE 0,
     SourcePriority(sources, item.bundle.song.source) >>

\* Python's order on tuples of equal length.
RECURSIVE TupleLess(_, _)
TupleLess(a, b) ==
  IF a = <<>> THEN FALSE
  ELSE IF Head(a) # Head(b) THEN Head(a) < Head(b)
  ELSE TupleLess(Tail(a), Tail(b))

\* max(fetched, key=rank): the first item no later item outranks.
RECURSIVE MaxByRank(_, _, _, _)
MaxByRank(fetched, mode, translation, sources) ==
  IF Len(fetched) = 1 THEN fetched[1]
  ELSE LET front == MaxByRank(SubSeq(fetched, 1, Len(fetched) - 1), mode, translation, sources)
           last == fetched[Len(fetched)]
       IN IF TupleLess(Rank(front, mode, translation, sources), Rank(last, mode, translation, sources))
          THEN last ELSE front

\* translate.openai.translate_data_openai on the answer `trans` of the service.
TranslateDataOpenai(orig, trans) ==
  [i \in 1..Len(orig) |->
     LyricsLine(orig[i].start, orig[i].end, << LyricsWord(orig[i].start, orig[i].end, trans[i]) >>)]

(***************************************************************************)
(* The renderer (lrc_render.py).  A rendered line is a sequence of tokens: *)
(* a time stamp with its opening bracket, or a piece of text.  `t` is the  *)
(* millisecond value handed to ms_converter.                               *)
(***************************************************************************)
StampTok(open, t) == [kind |-> open, t |-> t, text |-> <<>>]

TextTok(text) == [kind |-> "text", t |-> NoTime, text |-> text]

Closing(open) == IF open = "[" THEN "]" ELSE ">"

\* str.endswith(close) on the rendered tokens.
EndsWith(toks, close) ==
  /\ toks # <<>>
  /\ LET last == toks[Len(toks)]
     IN IF last.kind = "text"
        THEN last.text[Len(last.text)] = close
        ELSE Closing(last.kind) = close

\* text += wtxt (an empty text adds nothing)
AddText(toks, text) == IF text = <<>> THEN toks ELSE Append(toks, TextTok(text))

\* The word loop of lyrics_line2str, lines 46-54.
RECURSIVE RenderWords(_, _, _, _, _)
RenderWords(toks, words, last_end, open, line_start_time) ==
  IF words = <<>> THEN toks
  ELSE LET word == Head(words)
           withStart ==
             IF word.start # NoTime /\ word.start # last_end
             THEN Append(toks, StampTok(open,
                    Max(word.start, IF line_start_time # NoTime THEN line_start_time ELSE word.start)))
             ELSE toks
           withText == AddText(withStart, word.text)
           withEnd == IF word.end # NoTime THEN Append(withText, StampTok(open, word.end)) ELSE withText
       IN RenderWords(withEnd, Tail(words), word.end, open, line_start_time)

\* lrc_render._line_text
RECURSIVE LineTextTokens(_, _)
LineTextTokens(toks, words) ==
  IF words = <<>> THEN toks ELSE LineTextTokens(AddText(toks, Head(words).text), Tail(words))

\* lrc_render.lyrics_line2str
LyricsLine2Str(line, mode, line_start_time, line_end_time) ==
  LET head == IF line_start_time # NoTime THEN << StampTok("[", line_start_time) >> ELSE <<>>
      open == IF mode = "verbatim" THEN "[" ELSE "<"
      body == RenderWords(head, line.words, IF mode = "verbatim" THEN line.start ELSE NoTime,
                          open, line_start_time)
  IN IF mode = "line" THEN LineTextTokens(head, line.words)
     ELSE IF line_end_time # NoTime /\ ~EndsWith(body, Closing(open))
          THEN Append(body, StampTok(open, line_end_time))
          ELSE body

Abs(x) == IF x < 0 THEN 0 - x ELSE x

\* ts_by_start[start]: the last ts line with that start.
TsByStart(ts, start) ==
  ts[CHOOSE i \in 1..Len(ts) : ts[i].start = start /\ \A j \in (i + 1)..Len(ts) : ts[j].start # start]

HasStart(ts, start) == \E i \in 1..Len(ts) : ts[i].start = start

\* The first ts line that has a start, however far it is.
FirstTimedTs(ts, start) ==
  ts[CHOOSE i \in 1..Len(ts) : ts[i].start # NoTime /\ \A j \in 1..(i - 1) : ts[j].start = NoTime]

\* min(ts_with_start, key=|t.start - start|): the first ts line at the least
\* distance.
NearestTs(ts, start) ==
  ts[CHOOSE i \in 1..Len(ts) :
       /\ ts[i].start # NoTime
       /\ \A j \in 1..Len(ts) : ts[j].start # NoTime =>
            \/ Abs(ts[i].start - start) < Abs(ts[j].start - start)
            \/ (Abs(ts[i].start - start) = Abs(ts[j].start - start) /\ i <= j)]

\* align_translation with the same-length tier overwriting the exact matches.
AlignTranslationByIndex(orig, ts) ==
  LET exact == {i \in 1..Len(orig) : orig[i].start # NoTime /\ HasStart(ts, orig[i].start)}
      timed == {j \in 1..Len(ts) : ts[j].start # NoTime}
      near == {i \in 1..Len(orig) : i \notin exact /\ orig[i].start # NoTime}
  IN IF Cardinality(exact) = Len(orig)
     THEN [i \in exact |-> TsByStart(ts, orig[i].start)]
     ELSE IF Len(orig) = Len(ts)
     THEN [i \in 1..Len(orig) |-> ts[i]]
     ELSE IF timed = {}
     THEN [i \in exact |-> TsByStart(ts, orig[i].start)]
     ELSE [i \in exact \cup near |->
             IF i \in exact THEN TsByStart(ts, orig[i].start) ELSE NearestTs(ts, orig[i].start)]

\* align_translation without the same-length tier.
AlignTranslationNearest(orig, ts) ==
  LET exact == {i \in 1..Len(orig) : orig[i].start # NoTime /\ HasStart(ts, orig[i].start)}
      timed == {j \in 1..Len(ts) : ts[j].start # NoTime}
      near == {i \in 1..Len(orig) : i \notin exact /\ orig[i].start # NoTime}
  IN IF Cardinality(exact) = Len(orig)
     THEN [i \in exact |-> TsByStart(ts, orig[i].start)]
     ELSE IF timed = {}
     THEN [i \in exact |-> TsByStart(ts, orig[i].start)]
     ELSE [i \in exact \cup near |->
             IF i \in exact THEN TsByStart(ts, orig[i].start) ELSE NearestTs(ts, orig[i].start)]

\* lrc_render.align_translation: a function from (1-based) orig indices to ts
\* lines.
AlignTranslation(orig, ts) ==
  LET exact == {i \in 1..Len(orig) : orig[i].start # NoTime /\ HasStart(ts, orig[i].start)}
      timed == {j \in 1..Len(ts) : ts[j].start # NoTime}
      near == {i \in 1..Len(orig) : i \notin exact /\ orig[i].start # NoTime}
  IN IF Cardinality(exact) = Len(orig)
     THEN [i \in exact |-> TsByStart(ts, orig[i].start)]
     ELSE IF Len(orig) = Len(ts)
     THEN [i \in 1..Len(orig) |-> IF i \in exact THEN TsByStart(ts, orig[i].start) ELSE ts[i]]
     ELSE IF timed = {}
     THEN [i \in exact |-> TsByStart(ts, orig[i].start)]
     ELSE [i \in exact \cup near |->
             IF i \in exact THEN TsByStart(ts, orig[i].start) ELSE NearestTs(ts, orig[i].start)]

\* adj() without the clamp at 0.
AdjUnclamped(t, offset_ms) == IF t # NoTime THEN t + offset_ms ELSE NoTime

\* adj() of render_lrc
Adj(t, offset_ms) == IF t # NoTime THEN Max(t + offset_ms, 0) ELSE NoTime

AdjLine(line, offset_ms) ==
  LyricsLine(Adj(line.start, offset_ms), Adj(line.end, offset_ms),
             [j \in 1..Len(line.words) |->
                LyricsWord(Adj(line.words[j].start, offset_ms), Adj(line.words[j].end, offset_ms),
                           line.words[j].text)])

\* The lines render_lrc emits for orig[idx]: the line, its translation when
\* aligned, and the end stamp when asked for.
RenderOne(oline, ts_map, idx, mode, offset_ms, add_end_timestamp_line) ==
  LET n == Len(oline.words)
      line_start_time == IF n > 0 /\ oline.words[1].start # NoTime THEN oline.words[1].start
                         ELSE oline.start
      line_end_time == IF n > 0 /\ oline.words[n].end # NoTime THEN oline.words[n].end
                       ELSE oline.end
      text == LyricsLine2Str(AdjLine(oline, offset_ms), mode,
                             Adj(line_start_time, offset_ms), Adj(line_end_time, offset_ms))
      tline == ts_map[idx]
      t_start == IF tline.start # NoTime THEN tline.start ELSE oline.start
      t_text == LyricsLine2Str(AdjLine(tline, offset_ms), "line",
                               Adj(t_start, offset_ms), Adj(tline.end, offset_ms))
  IN << text >>
     \o (IF idx \in DOMAIN ts_map THEN << t_text >> ELSE <<>>)
     \o (IF mode = "line" /\ add_end_timestamp_line /\ line_end_time # NoTime
         THEN << << StampTok("[", Adj(line_end_time, offset_ms)) >> >> ELSE <<>>)

RECURSIVE RenderBody(_, _, _, _, _, _)
RenderBody(orig, ts_map, idx, mode, offset_ms, add_end_timestamp_line) ==
  IF idx > Len(orig) THEN <<>>
  ELSE RenderOne(orig[idx], ts_map, idx, mode, offset_ms, add_end_timestamp_line)
       \o RenderBody(orig, ts_map, idx + 1, mode, offset_ms, add_end_timestamp_line)

\* lrc_render.render_lrc: the body lines (the tag header is left out).
RenderLrc(orig, ts, mode, include_translation, offset_ms, add_end_timestamp_line) ==
  LET ts_map == IF include_translation /\ Truthy(ts) THEN AlignTranslation(orig, ts) ELSE <<>>
  IN RenderBody(orig, ts_map, 1, mode, offset_ms, add_end_timestamp_line)

\* The text of a rendered line without its stamps.
RECURSIVE RenderedText(_)
RenderedText(toks) ==
  IF toks = <<>> THEN <<>> ELSE Head(toks).text \o RenderedText(Tail(toks))

(***************************************************************************)
(* State.                                                                  *)
(***************************************************************************)
VARIABLES
  \* fetch_lyrics_bundle / fetch_lrc: the arguments, the position in the
  \* code, the loop indices and the locals of the same names
  args, pc, kwIdx, srcIdx, candIdx, scored, candidates, fetched, best,
  \* fetch._PROVIDERS: the sources that have a provider instance
  PROVIDERS_fetch,
  \* what fetch_lyrics_bundle returned or raised, and fetch_lrc's text
  result, output,
  \* history: the search(keyword, source) and get_lyrics(candidate) calls made
  \* so far, whether one raised, whether a search returned a song scoring
  \* min_score or more, whether a get_lyrics returned a non-empty orig, and
  \* how far the translation call got
  searchCalls, lyricsCalls, raisedIn, hit, gotOrig, translate,
  \* server.py: the request being handled (its method, path and JSON body), the
  \* response sent, server._PROVIDERS as the instance registered per source
  \* (0: none), and the number of provider instances constructed per source
  req, resp, PROVIDERS_server, constructed,
  \* Handler._handle_search: the _search_source calls submitted to the pool
  \* (source, position, provider in hand, value returned) and the order in
  \* which as_completed yields them
  workers, completed,
  \* time.time() in ticks; cache.TTLCache._data for the one key in use (empty,
  \* or its entry); the threads (position, the entry a get read, the value it
  \* returned); one provider instance with its init_lock (0: free)
  now, cacheData, thr, prov, lock,
  \* history: the last bootstrap that succeeded, the entry the last completed
  \* set stored
  lastBoot, lastSet,
  \* render_lrc: its arguments, the dict align_translation returned and the
  \* text returned (one token sequence per body line); a provider's lyric
  \* payload (its format and lines); the LyricsData a parser returned
  rin, aligned, lrcOut, raw, parsed,
  \* decryptor/core.py: the call looked at (the function, the type and the
  \* content of its argument) and how the call ended
  encrypted, decrypted,
  \* server.main: what has become of each client's request (not sent, waiting
  \* in the listening socket, being handled, answered) and the request the
  \* server is handling (0: none)
  conns, current,
  \* KGProvider.search: what the two search endpoints answer, the position in
  \* the call, the requests sent so far and how the call ended
  upstream, kgpc, requests, found

fetchVars == << args, pc, kwIdx, srcIdx, candIdx, scored, candidates, fetched, best,
                PROVIDERS_fetch, result, output, searchCalls, lyricsCalls, raisedIn, hit, gotOrig, translate >>

serverVars == << req, resp, PROVIDERS_server, constructed, workers, completed >>

concVars == << now, cacheData, thr, prov, lock, lastBoot, lastSet >>

textVars == << rin, aligned, lrcOut, raw, parsed >>

cipherVars == << encrypted, decrypted >>

serveVars == << conns, current >>

kgVars == << upstream, kgpc, requests, found >>

kitVars == << cipherVars, serveVars, kgVars >>

vars == << fetchVars, serverVars, concVars, textVars, kitVars >>

NoBundle == LyricsBundle(NoSong, NoData, NoData)

Pending == [kind |-> "pending", bundle |-> NoBundle]

Raised(kind) == [kind |-> kind, bundle |-> NoBundle]

Returned(bundle) == [kind |-> "bundle", bundle |-> bundle]

\* A key the response does not have.
NoLrc == << << StampTok("absent", NoTime) >> >>

NoErrors == << "absent" >>

NoResponse ==
  [status |-> 0, lrc |-> NoLrc, lrc_orig |-> NoLrc, lrc_trans |-> NoLrc,
   results |-> <<>>, errors |-> NoErrors]

NoProvider == [kind |-> "none", inited |-> FALSE, expire |-> 0, dfid |-> 0, published |-> FALSE]

NoCall == [kind |-> "none", text |-> <<>>]

NumClients == 3

Clients == 1..NumClients

NoReply == [status |-> 0, body |-> "none", error_code |-> 0, items |-> <<>>]

\* No request has been sent to the server.
ServeIdle ==
  /\ conns = [c \in Clients |-> [path |-> "none", state |-> "idle"]]
  /\ current = 0

NoSongs == [kind |-> "none", songs |-> <<>>]

\* No KGProvider.search call is looked at.
KgIdle ==
  /\ upstream = [primary |-> NoReply, legacy |-> NoReply]
  /\ kgpc = "idle"
  /\ requests = <<>>
  /\ found = NoSongs

\* No decryptor call is looked at.
CipherIdle ==
  /\ encrypted = [fn |-> "none", type |-> "NoneType", data |-> <<>>]
  /\ decrypted = NoCall

KitIdle == CipherIdle /\ ServeIdle /\ KgIdle

\* No render_lrc call and no parser call is looked at.
LyricIdle ==
  /\ rin = [orig |-> <<>>, ts |-> NoData, mode |-> "line", include_translation |-> FALSE,
            offset_ms |-> 0, add_end_timestamp_line |-> FALSE]
  /\ aligned = <<>>
  /\ lrcOut = NoLrc
  /\ raw = [format |-> "none", lines |-> <<>>]
  /\ parsed = NoData

TextIdle == LyricIdle /\ KitIdle

\* The locals of fetch_lyrics_bundle before its first statement.
FetchLocalsInit ==
  /\ kwIdx = 1
  /\ srcIdx = 1
  /\ candIdx = 1
  /\ scored = <<>>
  /\ candidates = <<>>
  /\ fetched = <<>>
  /\ best = NoBundle
  /\ result = Pending
  /\ output = <<>>
  /\ searchCalls = <<>>
  /\ lyricsCalls = <<>>
  /\ raisedIn = {}
  /\ hit = FALSE
  /\ gotOrig = FALSE
  /\ translate = "not called"

\* A call of fetch_lrc(title=..., artist=..., sources=..., ...) in a fresh
\* process.
InitFetch ==
  /\ args \in [entry : {"fetch_lrc"}, title : RequestTitles, artist : RequestArtists,
               sources : SourceLists, max_candidates : 0..MaxCand,
               mode : LrcModes, translation : TranslationModes]
  /\ pc = "call"
  /\ PROVIDERS_fetch = {}
  /\ FetchLocalsInit

Title == Strip(args.title)

Artist == IF TruthyText(args.artist) THEN Strip(args.artist) ELSE NoText

Keywords == KeywordVariants(args.title, args.artist)

\* fetch_lyrics_bundle raises: the exception passes through fetch_lrc.
Raise(kind) ==
  /\ pc' = "done"
  /\ result' = Raised(kind)
  /\ output' = <<>>

\* fetch.py lines 225-227
IncludeTranslation(translation, bundle) ==
  IF translation = "provider" THEN bundle.ts # NoData ELSE translation # "none"

OrEmpty(data) == IF Truthy(data) THEN data ELSE <<>>

\* fetch.fetch_lrc lines 225-239: render what fetch_lyrics_bundle returned.
FetchLrc(bundle, mode, translation) ==
  RenderLrc(OrEmpty(bundle.orig), bundle.ts, mode, IncludeTranslation(translation, bundle), 0, FALSE)

\* fetch_lyrics_bundle returns `bundle` and fetch_lrc renders it.
Return(bundle) ==
  /\ pc' = "done"
  /\ result' = Returned(bundle)
  /\ output' = FetchLrc(bundle, args.mode, args.translation)

\* fetch.py lines 82-87: the argument checks fail.
FetchLyricsBundleRejects ==
  /\ pc = "call"
  /\ Title = <<>> \/ args.max_candidates <= 0
  /\ Raise("ValueError")
  /\ UNCHANGED << args, kwIdx, srcIdx, candIdx, scored, candidates, fetched, best,
                  PROVIDERS_fetch, searchCalls, lyricsCalls, raisedIn, hit, gotOrig, translate >>

\* fetch.py lines 82-90: the argument checks pass.
FetchLyricsBundleStarts ==
  /\ pc = "call"
  /\ Title # <<>>
  /\ args.max_candidates > 0
  /\ pc' = "search"
  /\ UNCHANGED << args, kwIdx, srcIdx, candIdx, scored, candidates, fetched, best,
                  PROVIDERS_fetch, result, output, searchCalls, lyricsCalls, raisedIn, hit, gotOrig, translate >>

InSearchLoop == pc = "search" /\ kwIdx <= Len(Keywords) /\ srcIdx <= Len(args.sources)

LogSearch(raised, results) ==
  /\ searchCalls' = Append(searchCalls, <<kwIdx, srcIdx>>)
  /\ raisedIn' = IF raised THEN raisedIn \cup {"search"} ELSE raisedIn
  /\ hit' = (hit \/ \E i \in 1..Len(results) :
                      ScoreCandidate(Title, Artist, results[i].title, results[i].artist) >= MinScore)
  /\ UNCHANGED << lyricsCalls, gotOrig >>

\* The exceptions get_lyrics raises: APIParamsError when the song lacks a
\* field the provider requires (lrclib.py lines 64-66, qm.py lines 109-111),
\* APIRequestError for a failed request or an upstream error code.
ProviderFaults == {"APIParamsError", "APIRequestError"}

LogLyrics(raised, orig) ==
  /\ lyricsCalls' = Append(lyricsCalls, candIdx)
  /\ raisedIn' = raisedIn \cup raised
  /\ gotOrig' = (gotOrig \/ orig)
  /\ UNCHANGED << searchCalls, hit >>

\* fetch.py lines 95-99: _get_provider(src) builds the provider, whose
\* constructor runs the bootstrap request, and that raises.
SearchProviderFails ==
  /\ InSearchLoop
  /\ args.sources[srcIdx] \notin PROVIDERS_fetch
  /\ srcIdx' = srcIdx + 1
  /\ LogSearch(TRUE, <<>>)
  /\ UNCHANGED << args, pc, kwIdx, candIdx, scored, candidates, fetched, best,
                  PROVIDERS_fetch, result, output, translate >>

\* provider.search raises and the exception ends the scan of the keyword.
SearchRaisesAborts ==
  /\ InSearchLoop
  /\ PROVIDERS_fetch' = PROVIDERS_fetch \cup {args.sources[srcIdx]}
  /\ srcIdx' = Len(args.sources) + 1
  /\ LogSearch(TRUE, <<>>)
  /\ UNCHANGED << args, pc, kwIdx, candIdx, scored, candidates, fetched, best,
                  result, output, translate >>

\* fetch.py lines 95-99: provider.search raises.
SearchRaises ==
  /\ InSearchLoop
  /\ PROVIDERS_fetch' = PROVIDERS_fetch \cup {args.sources[srcIdx]}
  /\ srcIdx' = srcIdx + 1
  /\ LogSearch(TRUE, <<>>)
  /\ UNCHANGED << args, pc, kwIdx, candIdx, scored, candidates, fetched, best,
                  result, output, translate >>

\* fetch.py lines 95-107: provider.search returns and its songs are scored.
SearchReturns ==
  /\ InSearchLoop
  /\ \E results \in SearchResults(args.sources[srcIdx]) :
       /\ scored' = ScoreResults(scored, results, Title, Artist)
       /\ LogSearch(FALSE, results)
  /\ PROVIDERS_fetch' = PROVIDERS_fetch \cup {args.sources[srcIdx]}
  /\ srcIdx' = srcIdx + 1
  /\ UNCHANGED << args, pc, kwIdx, candIdx, candidates, fetched, best,
                  result, output, translate >>

KeywordDone == pc = "search" /\ kwIdx <= Len(Keywords) /\ srcIdx > Len(args.sources)

\* fetch.py lines 108-114: the keyword gave candidates; leave the loop and
\* keep the best max_candidates.
KeywordYields ==
  /\ KeywordDone
  /\ scored # <<>>
  /\ candidates' = TopCandidates(scored, args.max_candidates)
  /\ pc' = "lyrics"
  /\ UNCHANGED << args, kwIdx, srcIdx, candIdx, scored, fetched, best,
                  PROVIDERS_fetch, result, output, searchCalls, lyricsCalls, raisedIn, hit, gotOrig, translate >>

\* The next keyword is tried whether or not this one gave a candidate.
KeywordNext ==
  /\ KeywordDone
  /\ kwIdx < Len(Keywords)
  /\ kwIdx' = kwIdx + 1
  /\ srcIdx' = 1
  /\ UNCHANGED << args, pc, candIdx, scored, candidates, fetched, best,
                  PROVIDERS_fetch, result, output, searchCalls, lyricsCalls, raisedIn, hit, gotOrig, translate >>

\* fetch.py lines 93, 108: the keyword gave nothing; try the next one.
KeywordEmpty ==
  /\ KeywordDone
  /\ scored = <<>>
  /\ kwIdx < Len(Keywords)
  /\ kwIdx' = kwIdx + 1
  /\ srcIdx' = 1
  /\ UNCHANGED << args, pc, candIdx, scored, candidates, fetched, best,
                  PROVIDERS_fetch, result, output, searchCalls, lyricsCalls, raisedIn, hit, gotOrig, translate >>

\* fetch.py lines 111-112: no keyword gave a candidate.
SearchFindsNothing ==
  /\ KeywordDone
  /\ scored = <<>>
  /\ kwIdx = Len(Keywords)
  /\ Raise("LyricsNotFoundError")
  /\ UNCHANGED << args, kwIdx, srcIdx, candIdx, scored, candidates, fetched, best,
                  PROVIDERS_fetch, searchCalls, lyricsCalls, raisedIn, hit, gotOrig, translate >>

InLyricsLoop == pc = "lyrics" /\ candIdx <= Len(candidates)

\* fetch.py lines 117-122: get_lyrics raises; except Exception catches every
\* kind of provider fault and the candidate is skipped.
GetLyricsRaises ==
  /\ InLyricsLoop
  /\ \E kind \in ProviderFaults :
       LogLyrics({"get_lyrics"} \cup (IF kind = "APIParamsError" THEN {kind} ELSE {}), FALSE)
  /\ candIdx' = candIdx + 1
  /\ UNCHANGED << args, pc, kwIdx, srcIdx, scored, candidates, fetched, best,
                  PROVIDERS_fetch, result, output, translate >>

\* Every returned bundle is kept, with or without an orig.
KeepFetchedAlways(list, cand, bundle) == Append(list, [cand |-> cand, bundle |-> bundle])

\* fetch.py lines 123-124
KeepFetched(list, cand, bundle) ==
  IF Truthy(bundle.orig) THEN Append(list, [cand |-> cand, bundle |-> bundle]) ELSE list

\* fetch.py lines 117-124: get_lyrics returns a bundle.
GetLyricsReturns ==
  /\ InLyricsLoop
  /\ \E bundle \in BundlesOf(candidates[candIdx].song) :
       /\ fetched' = KeepFetched(fetched, candidates[candIdx], bundle)
       /\ LogLyrics({}, Truthy(bundle.orig))
  /\ candIdx' = candIdx + 1
  /\ UNCHANGED << args, pc, kwIdx, srcIdx, scored, candidates, best,
                  PROVIDERS_fetch, result, output, translate >>

LyricsDone == pc = "lyrics" /\ candIdx > Len(candidates)

\* fetch.py lines 126-127
NoLyricsFetched ==
  /\ LyricsDone
  /\ fetched = <<>>
  /\ Raise("LyricsNotFoundError")
  /\ UNCHANGED << args, kwIdx, srcIdx, candIdx, scored, candidates, fetched, best,
                  PROVIDERS_fetch, searchCalls, lyricsCalls, raisedIn, hit, gotOrig, translate >>

\* fetch.py line 139
BestOf(list) == MaxByRank(list, args.mode, args.translation, args.sources).bundle

\* fetch.py lines 141-143: whether the translation client is to be called.
NeedsTranslation(bundle) ==
  /\ args.translation \in {"openai", "auto"}
  /\ bundle.ts = NoData
  /\ args.translation # "none"
  /\ bundle.orig # NoData

\* fetch.py lines 139-158: the best bundle needs no translation call and is
\* cleaned and returned.
SelectBest ==
  /\ LyricsDone
  /\ fetched # <<>>
  /\ ~NeedsTranslation(BestOf(fetched))
  /\ best' = BestOf(fetched)
  /\ Return(CleanLyricsBundle(BestOf(fetched)))
  /\ UNCHANGED << args, kwIdx, srcIdx, candIdx, scored, candidates, fetched,
                  PROVIDERS_fetch, searchCalls, lyricsCalls, raisedIn, hit, gotOrig, translate >>

\* fetch.py lines 139-153: the best bundle goes to the translation client.
SelectBestAndTranslate ==
  /\ LyricsDone
  /\ fetched # <<>>
  /\ NeedsTranslation(BestOf(fetched))
  /\ best' = BestOf(fetched)
  /\ pc' = "translate"
  /\ translate' = "called"
  /\ UNCHANGED << args, kwIdx, srcIdx, candIdx, scored, candidates, fetched,
                  PROVIDERS_fetch, result, output, searchCalls, lyricsCalls, raisedIn, hit, gotOrig >>

\* fetch.py lines 147-158: the translation arrives and becomes best.ts.
TranslateReturns ==
  /\ pc = "translate"
  /\ \E trans \in [1..Len(best.orig) -> TransTexts] :
       LET translated == [best EXCEPT !.ts = TranslateDataOpenai(best.orig, trans)]
       IN /\ best' = translated
          /\ Return(CleanLyricsBundle(translated))
  /\ translate' = "returned"
  /\ UNCHANGED << args, kwIdx, srcIdx, candIdx, scored, candidates, fetched,
                  PROVIDERS_fetch, searchCalls, lyricsCalls, raisedIn, hit, gotOrig >>

\* A failed translation is raised again whatever the translation mode.
ReraiseAlways(translation) == translation \in TranslationModes

\* fetch.py lines 154-156: whether a failed translation is raised again.
ReraiseTranslateError(translation) == translation = "openai"

\* fetch.py lines 146-158: the translation client raises.
TranslateRaises ==
  /\ pc = "translate"
  /\ IF ReraiseTranslateError(args.translation)
     THEN Raise("TranslateError")
     ELSE Return(CleanLyricsBundle(best))
  /\ translate' = "failed"
  /\ UNCHANGED << args, kwIdx, srcIdx, candIdx, scored, candidates, fetched, best,
                  PROVIDERS_fetch, searchCalls, lyricsCalls, raisedIn, hit, gotOrig >>

\* The steps of fetch_lrc, which is fetch_lyrics_bundle and the rendering of
\* its result.
FetchLyricsBundleSteps ==
  \/ FetchLyricsBundleRejects
  \/ FetchLyricsBundleStarts
  \/ SearchProviderFails
  \/ SearchRaises
  \/ SearchReturns
  \/ KeywordYields
  \/ KeywordEmpty
  \/ SearchFindsNothing
  \/ GetLyricsRaises
  \/ GetLyricsReturns
  \/ NoLyricsFetched
  \/ SelectBest
  \/ SelectBestAndTranslate
  \/ TranslateReturns
  \/ TranslateRaises

\* server.py line 22 and the handler before a request arrives.
ServerIdle ==
  /\ req = [method |-> "POST", path |-> "", title |-> <<>>, artist |-> NoText, sources |-> <<>>, source |-> "",
            id |-> 0, mode |-> "verbatim", translation |-> "none"]
  /\ resp = NoResponse
  /\ PROVIDERS_server = [s \in Source |-> 0]
  /\ constructed = [s \in Source |-> 0]
  /\ workers = <<>>
  /\ completed = <<>>

\* No provider instance and no cache traffic is looked at.
ConcIdle ==
  /\ now = 0
  /\ cacheData = <<>>
  /\ thr = <<>>
  /\ prov = NoProvider
  /\ lock = 0
  /\ lastBoot = [ok |-> FALSE, until |-> NoTime]
  /\ lastSet = <<>>

FetchLyricsBundle == FetchLyricsBundleSteps /\ UNCHANGED << serverVars, concVars, textVars, kitVars >>

Init == InitFetch /\ ServerIdle /\ ConcIdle /\ TextIdle

Next == FetchLyricsBundle

\* A library call of fetch_lrc.
Spec == Init /\ [][Next]_vars

(***************************************************************************)
(* POST /fetch_by_id and /fetch_by_id_separate (server.py).                *)
(***************************************************************************)
\* No library call is under way.
FetchIdle ==
  /\ args = [entry |-> "none", title |-> <<>>, artist |-> NoText, sources |-> <<>>,
             max_candidates |-> 0, mode |-> "verbatim", translation |-> "none"]
  /\ pc = "idle"
  /\ PROVIDERS_fetch = {}
  /\ FetchLocalsInit

ByIdPaths == {"/fetch_by_id", "/fetch_by_id_separate"}

\* A by-id request arrives at a server that has served nothing yet.
InitById ==
  /\ req \in [method : {"POST"}, path : ByIdPaths, title : {<<"t">>}, artist : {<<"a">>}, sources : {<<>>},
              source : {"", "XX", "QM", "NE"}, id : {0, 1},
              mode : LrcModes \cup {"enhanced"}, translation : TranslationModes]
  /\ resp = NoResponse
  /\ PROVIDERS_server = [s \in Source |-> 0]
  /\ constructed = [s \in Source |-> 0]
  /\ workers = <<>>
  /\ completed = <<>>
  /\ FetchIdle
  /\ ConcIdle
  /\ TextIdle

\* Handler._send
Send(status) == [NoResponse EXCEPT !.status = status]

\* server.py lines 25-40 when one thread runs them: the registered instance,
\* or a new one that is registered.
GetProvider(src) ==
  IF PROVIDERS_server[src] # 0
  THEN UNCHANGED << PROVIDERS_server, constructed >>
  ELSE /\ constructed' = [constructed EXCEPT ![src] = @ + 1]
       /\ PROVIDERS_server' = [PROVIDERS_server EXCEPT ![src] = constructed[src] + 1]

\* server.py lines 126-130, 200-209: what the handler checks before it
\* fetches.
ByIdAccepted ==
  /\ req.mode # "enhanced"
  /\ req.source # ""
  /\ req.id # 0
  /\ req.source \in Source

ByIdPending == req.method = "POST" /\ req.path \in ByIdPaths /\ resp = NoResponse

\* server.py lines 126-130, 200-209: the request is refused.
ByIdRejects ==
  /\ ByIdPending
  /\ ~ByIdAccepted
  /\ resp' = Send(400)
  /\ UNCHANGED << fetchVars, textVars, kitVars, concVars, req, PROVIDERS_server, constructed, workers, completed >>

\* server.py lines 217, 145-146: the provider's constructor raises.
ByIdProviderRaises ==
  /\ ByIdPending
  /\ ByIdAccepted
  /\ PROVIDERS_server[req.source] = 0
  /\ resp' = Send(400)
  /\ UNCHANGED << fetchVars, textVars, kitVars, concVars, req, PROVIDERS_server, constructed, workers, completed >>

\* server.py lines 217-223: get_lyrics raises.
ByIdGetLyricsRaises ==
  /\ ByIdPending
  /\ ByIdAccepted
  /\ GetProvider(req.source)
  /\ resp' = Send(400)
  /\ UNCHANGED << fetchVars, textVars, kitVars, concVars, req, workers, completed >>

\* server.py lines 229-272: the response for a bundle that has an orig.
ByIdResponse(bundle, separate, mode, translation) ==
  IF separate
  THEN [Send(200) EXCEPT
          !.lrc_orig = RenderLrc(bundle.orig, NoData, mode, FALSE, 0, FALSE),
          !.lrc_trans = IF Truthy(bundle.ts) /\ translation # "none"
                        THEN RenderLrc(bundle.ts, NoData, "line", FALSE, 0, FALSE)
                        ELSE NoLrc]
  ELSE LET include_translation == translation # "none" /\ bundle.ts # NoData
       IN [Send(200) EXCEPT
             !.lrc = RenderLrc(bundle.orig, IF include_translation THEN bundle.ts ELSE NoData,
                               mode, include_translation, 0, FALSE)]

\* server.py lines 216-272: get_lyrics returns; 404 without an orig, else
\* the rendered bundle.
ByIdGetLyricsReturns ==
  /\ ByIdPending
  /\ ByIdAccepted
  /\ GetProvider(req.source)
  /\ \E bundle \in BundlesOf(Song(req.source, req.id, req.title, req.artist)) :
       resp' = IF Truthy(bundle.orig)
               THEN ByIdResponse(bundle, req.path = "/fetch_by_id_separate", req.mode, req.translation)
               ELSE Send(404)
  /\ UNCHANGED << fetchVars, textVars, kitVars, concVars, req, workers, completed >>

NextById == ByIdRejects \/ ByIdProviderRaises \/ ByIdGetLyricsRaises \/ ByIdGetLyricsReturns

\* One POST /fetch_by_id or /fetch_by_id_separate.
SpecById == InitById /\ [][NextById]_vars

(***************************************************************************)
(* POST /search (server.py): one _search_source call per requested source, *)
(* run by the pool's threads.                                              *)
(***************************************************************************)
\* limit_per_source as the handler defaults it.
LimitPerSource == 20

SearchSourceLists == {<<"XX">>, <<"QM">>, <<"QM", "QM">>, <<"LRCLIB", "QM">>, <<"XX", "NE">>}

\* A search request arrives at a server that has served nothing yet.
InitSearch ==
  /\ req \in [method : {"POST"}, path : {"/search"}, title : {<<" ">>, <<"t">>}, artist : RequestArtists,
              sources : SearchSourceLists, source : {""}, id : {0},
              mode : {"verbatim", "enhanced"}, translation : {"none"}]
  /\ resp = NoResponse
  /\ PROVIDERS_server = [s \in Source |-> 0]
  /\ constructed = [s \in Source |-> 0]
  /\ workers = <<>>
  /\ completed = <<>>
  /\ FetchIdle
  /\ ConcIdle
  /\ TextIdle

\* server.py lines 160-166: the names that are members of Source.
ValidSources(names) == SelectSeq(names, LAMBDA n : n \in Source)

\* server.py lines 126-130, 150-170: what the handler checks before it
\* searches.
SearchAccepted ==
  /\ req.mode # "enhanced"
  /\ Strip(req.title) # <<>>
  /\ ValidSources(req.sources) # <<>>

SearchPending == req.method = "POST" /\ req.path = "/search" /\ resp = NoResponse /\ workers = <<>>

\* server.py lines 126-130, 150-170: the request is refused.
SearchRejects ==
  /\ SearchPending
  /\ ~SearchAccepted
  /\ resp' = Send(400)
  /\ UNCHANGED << fetchVars, textVars, kitVars, concVars, req, PROVIDERS_server, constructed, workers, completed >>

\* server.py lines 176-180: one _search_source call is submitted per valid
\* source name, repeated names included.
SearchSubmits ==
  /\ SearchPending
  /\ SearchAccepted
  /\ workers' = [i \in 1..Len(ValidSources(req.sources)) |->
                   [src |-> ValidSources(req.sources)[i], at |-> "lookup", provider |-> 0,
                    rows |-> <<>>, error |-> FALSE]]
  /\ UNCHANGED << fetchVars, textVars, kitVars, concVars, req, resp, PROVIDERS_server, constructed, completed >>

\* server._get_provider lines 26-27: the registry is read.
WorkerLooksUp ==
  \E w \in 1..Len(workers) :
    /\ workers[w].at = "lookup"
    /\ workers' = [workers EXCEPT ![w].provider = PROVIDERS_server[workers[w].src],
                                  ![w].at = IF PROVIDERS_server[workers[w].src] # 0
                                            THEN "search" ELSE "construct"]
    /\ UNCHANGED << fetchVars, textVars, kitVars, concVars, req, resp, PROVIDERS_server, constructed, completed >>

\* server._get_provider lines 28-40: a provider is constructed and stored.
WorkerConstructs ==
  \E w \in 1..Len(workers) :
    /\ workers[w].at = "construct"
    /\ constructed' = [constructed EXCEPT ![workers[w].src] = @ + 1]
    /\ PROVIDERS_server' = [PROVIDERS_server EXCEPT ![workers[w].src] = constructed[workers[w].src] + 1]
    /\ workers' = [workers EXCEPT ![w].provider = constructed[workers[w].src] + 1,
                                  ![w].at = "search"]
    /\ UNCHANGED << fetchVars, textVars, kitVars, concVars, req, resp, completed >>

\* server.py lines 65-83: _search_source returns ([], error).
WorkerFails(w) ==
  /\ workers' = [workers EXCEPT ![w].error = TRUE, ![w].at = "done"]
  /\ completed' = Append(completed, w)
  /\ UNCHANGED << fetchVars, textVars, kitVars, concVars, req, resp, PROVIDERS_server, constructed >>

\* The provider's constructor raises.
WorkerConstructorRaises ==
  \E w \in 1..Len(workers) : workers[w].at = "construct" /\ WorkerFails(w)

\* provider.search raises.
WorkerSearchRaises ==
  \E w \in 1..Len(workers) : workers[w].at = "search" /\ WorkerFails(w)

\* server._song_to_dict; scores are hundredths, which round(score, 2) keeps.
SongToDict(song, score) ==
  [source |-> song.source, id |-> song.id, score |-> score, title |-> song.title,
   artist |-> song.artist]

\* server.py lines 68-80: the rows for the songs a search returned.
SearchRows(songs, title, artist) ==
  LET kept == SelectSeq(Take(songs, LimitPerSource), LAMBDA song : song.id # 0 /\ song.title # <<>>)
      scoredRows == [i \in 1..Len(kept) |->
                       SongToDict(kept[i], ScoreCandidate(title, artist, kept[i].title, kept[i].artist))]
  IN SortedByScoreDesc(scoredRows)

\* server.py lines 65-81: provider.search returns.
WorkerSearchReturns ==
  \E w \in 1..Len(workers) :
    /\ workers[w].at = "search"
    /\ \E songs \in SearchResults(workers[w].src) :
         workers' = [workers EXCEPT
                       ![w].rows = SearchRows(songs, Strip(req.title),
                                              IF TruthyText(req.artist) /\ Strip(req.artist) # <<>>
                                              THEN Strip(req.artist) ELSE NoText),
                       ![w].at = "done"]
    /\ completed' = Append(completed, w)
    /\ UNCHANGED << fetchVars, textVars, kitVars, concVars, req, resp, PROVIDERS_server, constructed >>

\* server.py lines 181-185: the rows and the errors in the order the calls
\* completed.
RECURSIVE Gather(_, _)
Gather(ws, order) ==
  IF order = <<>> THEN [rows |-> <<>>, errors |-> <<>>]
  ELSE LET w == ws[Head(order)]
           rest == Gather(ws, Tail(order))
       IN [rows |-> w.rows \o rest.rows,
           errors |-> (IF w.error THEN << w.src >> ELSE <<>>) \o rest.errors]

\* The response without its errors key.
SearchResponseNoErrors(ws, order) ==
  [Send(200) EXCEPT !.results = SortedByScoreDesc(Gather(ws, order).rows)]

\* server.py lines 187-193
SearchResponse(ws, order) ==
  [Send(200) EXCEPT
     !.results = SortedByScoreDesc(Gather(ws, order).rows),
     !.errors = IF Gather(ws, order).errors # <<>> THEN Gather(ws, order).errors ELSE NoErrors]

\* server.py lines 181-193: every call has completed; the response is sent.
SearchResponds ==
  /\ req.path = "/search"
  /\ resp = NoResponse
  /\ workers # <<>>
  /\ Len(completed) = Len(workers)
  /\ resp' = SearchResponse(workers, completed)
  /\ UNCHANGED << fetchVars, textVars, kitVars, concVars, req, PROVIDERS_server, constructed, workers, completed >>

NextSearch ==
  \/ SearchRejects
  \/ SearchSubmits
  \/ WorkerLooksUp
  \/ WorkerConstructs
  \/ WorkerConstructorRaises
  \/ WorkerSearchRaises
  \/ WorkerSearchReturns
  \/ SearchResponds

\* One POST /search.
SpecSearch == InitSearch /\ [][NextSearch]_vars

(***************************************************************************)
(* Provider bootstrap: QMProvider.init, KGProvider.init, NEProvider.init   *)
(* called by several threads on one instance.                              *)
(***************************************************************************)
\* The threads that use the instance or the cache.
NumThreads == 2

\* The last tick of the clock.
MaxTime == 3

\* The ticks a cached value lives (864000 s for NE, 1800 s for KG).
Ttl == 2

NoRet == 0 - 1

Thread(at) == [at |-> at, ent |-> <<>>, ret |-> NoRet, saw |-> <<>>, late |-> FALSE]

\* cache._Entry
Entry(value, expire_at) == [value |-> value, expire_at |-> expire_at]

\* cache.py lines 25: the entry has not run out at `time`.
Live(data, time) == data # <<>> /\ (data[1].expire_at = NoTime \/ data[1].expire_at > time)

\* TTLCache.get run without interruption: what is left in _data.
AfterGet(data, time) == IF Live(data, time) THEN data ELSE <<>>

\* The constructor has been entered and calls init(); the cache is empty or
\* holds what an earlier instance left.
InitInit ==
  /\ now = 0
  /\ cacheData \in {<<>>, << Entry(Ttl, Ttl) >>}
  /\ thr = [t \in 1..NumThreads |-> Thread(IF t = 1 THEN "acquire" ELSE "idle")]
  /\ prov \in {[NoProvider EXCEPT !.kind = k] : k \in {"QM", "KG", "NE"}}
  /\ lock = 0
  /\ lastBoot = [ok |-> FALSE, until |-> NoTime]
  /\ lastSet = <<>>
  /\ FetchIdle
  /\ ServerIdle
  /\ TextIdle

\* A thread calls init() on the instance the constructor returned.
CallInit ==
  \E t \in 1..NumThreads :
    /\ prov.published
    /\ thr[t].at = "idle"
    /\ thr' = [thr EXCEPT ![t].at = "acquire"]
    /\ UNCHANGED << fetchVars, textVars, kitVars, serverVars, now, cacheData, prov, lock, lastBoot, lastSet >>

\* Whether init reads the cache: ne.py line 43, kg.py lines 37-39.
ConsultsCache(p) == p.kind = "NE" \/ (p.kind = "KG" /\ p.dfid = 0)

\* init goes on to the bootstrap request whatever it finds.
NeedsBootstrapAlways(p, data, time) == p.kind \in {"QM", "KG", "NE"}

\* qm.py lines 53-54, kg.py lines 37-40, ne.py lines 43-44: whether init goes
\* on to the bootstrap request.
NeedsBootstrap(p, data, time) ==
  CASE p.kind = "QM" -> ~p.inited
    [] p.kind = "KG" -> p.dfid = 0 /\ ~Live(data, time)
    [] OTHER -> ~(Live(data, time) /\ time < data[1].value)

\* kg.py line 52, ne.py lines 45-49: init returns with what it had or found.
Adopt(p, data) ==
  CASE p.kind = "QM" -> [p EXCEPT !.published = TRUE]
    [] p.kind = "KG" -> [p EXCEPT !.dfid = IF p.dfid = 0 THEN 1 ELSE p.dfid, !.published = TRUE]
    [] OTHER -> [p EXCEPT !.expire = data[1].value, !.inited = TRUE, !.published = TRUE]

\* with self.init_lock: the lock is taken and the latch is looked at; init
\* returns at once or sends the bootstrap request.
EnterInit ==
  \E t \in 1..NumThreads :
    /\ thr[t].at = "acquire"
    /\ lock = 0
    /\ LET data == IF ConsultsCache(prov) THEN AfterGet(cacheData, now) ELSE cacheData
       IN /\ cacheData' = data
          /\ IF NeedsBootstrap(prov, data, now)
             THEN /\ lock' = t
                  /\ thr' = [thr EXCEPT ![t].at = "bootstrap",
                                        ![t].late = lastBoot.ok /\ (prov.kind # "NE" \/ now < lastBoot.until)]
                  /\ prov' = prov
             ELSE /\ lock' = 0
                  /\ thr' = [thr EXCEPT ![t].at = "idle"]
                  /\ prov' = Adopt(prov, data)
    /\ UNCHANGED << fetchVars, textVars, kitVars, serverVars, now, lastBoot, lastSet >>

\* qm.py lines 55-62, kg.py lines 46-52, ne.py lines 71-104: the bootstrap
\* request is answered and init stores the session.
BootstrapSucceeds ==
  \E t \in 1..NumThreads :
    /\ thr[t].at = "bootstrap"
    /\ prov' = CASE prov.kind = "QM" -> [prov EXCEPT !.inited = TRUE, !.published = TRUE]
                  [] prov.kind = "KG" -> [prov EXCEPT !.dfid = 1, !.published = TRUE]
                  [] OTHER -> [prov EXCEPT !.expire = now + Ttl, !.inited = TRUE, !.published = TRUE]
    /\ cacheData' = CASE prov.kind = "QM" -> cacheData
                       [] prov.kind = "KG" -> << Entry(1, now + Ttl) >>
                       [] OTHER -> << Entry(now + Ttl, now + Ttl) >>
    /\ lastBoot' = [ok |-> TRUE, until |-> IF prov.kind = "NE" THEN now + Ttl ELSE NoTime]
    /\ lock' = 0
    /\ thr' = [thr EXCEPT ![t].at = "idle"]
    /\ UNCHANGED << fetchVars, textVars, kitVars, serverVars, now, lastSet >>

\* The bootstrap request raises and init leaves through the with block;
\* kg.py lines 47-52: KG takes an unsuccessful answer as the dfid "-".
BootstrapFails ==
  \E t \in 1..NumThreads :
    /\ thr[t].at = "bootstrap"
    /\ \E raises \in BOOLEAN :
         /\ raises \/ prov.kind = "KG"
         /\ prov' = IF raises THEN prov ELSE [prov EXCEPT !.dfid = 2, !.published = TRUE]
    /\ lock' = 0
    /\ thr' = [thr EXCEPT ![t].at = "idle"]
    /\ UNCHANGED << fetchVars, textVars, kitVars, serverVars, now, cacheData, lastBoot, lastSet >>

\* time.time() moves on.
Tick ==
  /\ now < MaxTime
  /\ now' = now + 1
  /\ UNCHANGED << fetchVars, textVars, kitVars, serverVars, cacheData, thr, prov, lock, lastBoot, lastSet >>

NextInit == CallInit \/ EnterInit \/ BootstrapSucceeds \/ BootstrapFails \/ Tick

\* One provider instance from its construction on.
SpecInit == InitInit /\ [][NextInit]_vars

(***************************************************************************)
(* cache.TTLCache: get and set on one key, called by several threads.      *)
(***************************************************************************)
\* The set calls looked at.
MaxSets == 2

\* The module-level cache of a fresh process.
InitCache ==
  /\ now = 0
  /\ cacheData = <<>>
  /\ thr = [t \in 1..NumThreads |-> Thread("idle")]
  /\ prov = NoProvider
  /\ lock = 0
  /\ lastBoot = [ok |-> FALSE, until |-> NoTime]
  /\ lastSet = <<>>
  /\ FetchIdle
  /\ ServerIdle
  /\ TextIdle

\* cache.py line 22: ent = self._data.get(key)
GetReads ==
  \E t \in 1..NumThreads :
    /\ thr[t].at = "idle"
    /\ thr' = [thr EXCEPT ![t].at = "check", ![t].ent = cacheData, ![t].saw = lastSet,
                          ![t].ret = NoRet]
    /\ UNCHANGED << fetchVars, textVars, kitVars, serverVars, now, cacheData, prov, lock, lastBoot, lastSet >>

\* cache.py lines 23-25, 28: a missing entry gives the default (0), a live
\* one its value; one that has run out is to be popped.
GetChecks ==
  \E t \in 1..NumThreads :
    /\ thr[t].at = "check"
    /\ thr' = IF thr[t].ent = <<>>
              THEN [thr EXCEPT ![t].at = "idle", ![t].ret = 0]
              ELSE IF Live(thr[t].ent, now)
                   THEN [thr EXCEPT ![t].at = "idle", ![t].ret = thr[t].ent[1].value]
                   ELSE [thr EXCEPT ![t].at = "pop"]
    /\ UNCHANGED << fetchVars, textVars, kitVars, serverVars, now, cacheData, prov, lock, lastBoot, lastSet >>

\* cache.py lines 26-27: self._data.pop(key, None); return default
GetPops ==
  \E t \in 1..NumThreads :
    /\ thr[t].at = "pop"
    /\ cacheData' = <<>>
    /\ thr' = [thr EXCEPT ![t].at = "idle", ![t].ret = 0]
    /\ UNCHANGED << fetchVars, textVars, kitVars, serverVars, now, prov, lock, lastBoot, lastSet >>

\* cache.py lines 30-32: set(key, value, expire_seconds); 0 seconds is no
\* expiry.  Each call stores a new value.
SetStores ==
  \E t \in 1..NumThreads : \E expire_seconds \in 0..Ttl :
    /\ thr[t].at = "idle"
    /\ (IF lastSet = <<>> THEN 0 ELSE lastSet[1].value) < MaxSets
    /\ LET value == IF lastSet = <<>> THEN 1 ELSE lastSet[1].value + 1
           expire_at == IF expire_seconds # 0 THEN now + expire_seconds ELSE NoTime
       IN /\ cacheData' = << Entry(value, expire_at) >>
          /\ lastSet' = << Entry(value, expire_at) >>
    /\ UNCHANGED << fetchVars, textVars, kitVars, serverVars, now, thr, prov, lock, lastBoot >>

NextCache == GetReads \/ GetChecks \/ GetPops \/ SetStores \/ Tick

\* The cache under concurrent get and set.
SpecCache == InitCache /\ [][NextCache]_vars

(***************************************************************************)
(* The request handler with every route (server.do_GET, server.do_POST).   *)
(***************************************************************************)
FetchPaths == {"/fetch", "/fetch_separate"}

\* server.py line 118
valid_paths == FetchPaths \cup {"/search"} \cup ByIdPaths

\* max_candidates as the two legacy routes pass it: fetch_lrc's default and
\* the literal of _handle_fetch_separate.
MaxCandidates == 8

\* Any request arrives at a server that has served nothing yet: a by-id
\* request, a search request, or a GET or POST to the legacy routes, to
\* /health or to a path that is not routed.
InitHttp ==
  \/ InitById
  \/ InitSearch
  \/ /\ req \in [method : {"GET", "POST"}, path : FetchPaths \cup {"/health", "/nope"},
                 title : {NoText, <<" ">>, <<"t">>}, artist : {<<"a">>},
                 sources : {<<"QM">>, <<"XX">>, <<"QM", "XX">>}, source : {""}, id : {0},
                 mode : LrcModes \cup {"enhanced"}, translation : {"none", "auto"}]
     /\ resp = NoResponse
     /\ PROVIDERS_server = [s \in Source |-> 0]
     /\ constructed = [s \in Source |-> 0]
     /\ workers = <<>>
     /\ completed = <<>>
     /\ FetchIdle
     /\ ConcIdle
     /\ TextIdle

\* server.do_GET
DoGet ==
  /\ req.method = "GET"
  /\ resp = NoResponse
  /\ resp' = Send(IF req.path = "/health" THEN 200 ELSE 404)
  /\ UNCHANGED << fetchVars, textVars, kitVars, concVars, req, PROVIDERS_server, constructed, workers, completed >>

\* server.py lines 118-121: a POST to a path that is not routed.
PostNotFound ==
  /\ req.method = "POST"
  /\ req.path \notin valid_paths
  /\ resp = NoResponse
  /\ resp' = Send(404)
  /\ UNCHANGED << fetchVars, textVars, kitVars, concVars, req, PROVIDERS_server, constructed, workers, completed >>

FetchPending == req.method = "POST" /\ req.path \in FetchPaths /\ resp = NoResponse /\ pc = "idle"

\* FetchAccepted without the mode check of do_POST.
FetchAcceptedAnyMode ==
  /\ \A i \in 1..Len(req.sources) : req.sources[i] \in Source
  /\ req.title # NoText

\* server.py lines 126-130, 276 and 283 (301 and 308): what the handler
\* checks before it calls the library; title NoText is a body without one.
FetchAccepted ==
  /\ req.mode # "enhanced"
  /\ \A i \in 1..Len(req.sources) : req.sources[i] \in Source
  /\ req.title # NoText

\* server.py lines 126-130, 145-146: enhanced is refused, Source[s] or
\* req["title"] raises KeyError.
FetchRejects ==
  /\ FetchPending
  /\ ~FetchAccepted
  /\ resp' = Send(400)
  /\ UNCHANGED << fetchVars, textVars, kitVars, concVars, req, PROVIDERS_server, constructed, workers, completed >>

\* server.py lines 293-297, 319-323: the handler calls fetch_lrc or
\* fetch_lyrics_bundle.
FetchCalls ==
  /\ FetchPending
  /\ FetchAccepted
  /\ args' = [entry |-> req.path, title |-> req.title, artist |-> req.artist,
              sources |-> req.sources, max_candidates |-> MaxCandidates,
              mode |-> req.mode, translation |-> req.translation]
  /\ pc' = "call"
  /\ UNCHANGED << kwIdx, srcIdx, candIdx, scored, candidates, fetched, best, PROVIDERS_fetch,
                  result, output, searchCalls, lyricsCalls, raisedIn, hit, gotOrig, translate >>
  /\ UNCHANGED << serverVars, concVars, textVars, kitVars >>

\* server.py lines 297, 325-348 and 145-146: nothing while the library call
\* runs, 400 when it raised, else the text of fetch_lrc or the two texts
\* rendered from the bundle.
FetchResponse(path, mode, res, out) ==
  IF res.kind = "pending" THEN NoResponse
  ELSE IF res.kind # "bundle" THEN Send(400)
  ELSE IF path = "/fetch" THEN [Send(200) EXCEPT !.lrc = out]
  ELSE [Send(200) EXCEPT
          !.lrc_orig = IF Truthy(res.bundle.orig)
                       THEN RenderLrc(res.bundle.orig, NoData, mode, FALSE, 0, FALSE)
                       ELSE NoLrc,
          !.lrc_trans = IF Truthy(res.bundle.ts)
                        THEN RenderLrc(res.bundle.ts, NoData, "line", FALSE, 0, FALSE)
                        ELSE NoLrc]

\* A step of the library call made for /fetch or /fetch_separate; the
\* handler answers when the call ends.
FetchRuns ==
  /\ args.entry \in FetchPaths
  /\ FetchLyricsBundleSteps
  /\ resp' = FetchResponse(req.path, req.mode, result', output')
  /\ UNCHANGED << req, PROVIDERS_server, constructed, workers, completed, concVars, textVars, kitVars >>

NextHttp == DoGet \/ PostNotFound \/ FetchRejects \/ FetchCalls \/ FetchRuns \/ NextById \/ NextSearch

\* One request to the server.
SpecHttp == InitHttp /\ [][NextHttp]_vars

(***************************************************************************)
(* render_lrc and lrc2data on their own (lrc_render.py, parsers/lrc.py).   *)
(***************************************************************************)
\* The longest orig and ts handed to render_lrc.
MaxOrig == 2

MaxTs == 2

\* Lines as the parsers build them: word-timed without and with a gap
\* between the words, line-timed, with a first word that starts after the
\* line, with a second word that starts before the first, and plain text.
OrigLines ==
  { LnVerb,
    LyricsLine(2, 5, << LyricsWord(2, 3, <<"a">>), LyricsWord(4, 5, <<"b">>) >>),
    LyricsLine(3, 4, << LyricsWord(NoTime, NoTime, <<"a">>) >>),
    LyricsLine(1, 4, << LyricsWord(2, 3, <<"a">>) >>),
    LyricsLine(2, 4, << LyricsWord(2, 3, <<"a">>), LyricsWord(1, 2, <<"b">>) >>),
    LyricsLine(NoTime, NoTime, << LyricsWord(NoTime, NoTime, <<"a">>) >>) }

\* Translation lines as lrc2data and plaintext2data build them.
TsLine(start, text) == LyricsLine(start, NoTime, << LyricsWord(start, NoTime, text) >>)

TsLines == { TsLine(1, <<"c">>), TsLine(1, <<"d">>), TsLine(4, <<"c">>), TsLine(NoTime, <<"c">>) }

SeqsUpTo(S, n) == UNION { [1..k -> S] : k \in 0..n }

Offsets == {0 - 2, 0}

\* A call of render_lrc.
InitRender ==
  /\ rin \in [orig : SeqsUpTo(OrigLines, MaxOrig), ts : {NoData} \cup SeqsUpTo(TsLines, MaxTs),
              mode : LrcModes, include_translation : BOOLEAN, offset_ms : Offsets,
              add_end_timestamp_line : BOOLEAN]
  /\ aligned = <<>>
  /\ lrcOut = NoLrc
  /\ raw = [format |-> "none", lines |-> <<>>]
  /\ parsed = NoData
  /\ KitIdle
  /\ FetchIdle
  /\ ServerIdle
  /\ ConcIdle

\* lrc_render.render_lrc: ts_map (line 125) and the text returned.
RenderLrcRuns ==
  /\ lrcOut = NoLrc
  /\ aligned' = IF rin.include_translation /\ Truthy(rin.ts)
                THEN AlignTranslation(rin.orig, rin.ts) ELSE <<>>
  /\ lrcOut' = RenderLrc(rin.orig, rin.ts, rin.mode, rin.include_translation, rin.offset_ms,
                         rin.add_end_timestamp_line)
  /\ UNCHANGED << fetchVars, serverVars, concVars, kitVars, rin, raw, parsed >>

\* timeutil.ms2formattime: the minutes, the seconds and the three digits
\* of milliseconds it prints.
Ms2FormatTime(ms) ==
  LET t == Max(ms, 0)
  IN [m |-> t \div 60000, s |-> (t % 60000) \div 1000, ms |-> t % 1000, digits |-> 3]

\* timeutil.time2ms
Time2Ms(f) == (f.m * 60 + f.s) * 1000 + (IF f.digits = 2 THEN f.ms * 10 ELSE f.ms)

\* The time lrc2data reads from a printed stamp.
StampMs(tok) == Time2Ms(Ms2FormatTime(tok.t))

\* parsers/lrc.py lines 52-60: the words of a line's content, part by part
\* as _WORD_SPLIT_PATTERN yields them (a run of text, then a stamp if one
\* follows; the last part is always empty).
RECURSIVE WordParts(_, _, _, _)
WordParts(words, toks, word_str, start) ==
  LET word_start == IF words = <<>> THEN start ELSE words[Len(words)].end
      with(word_end) == IF word_str # <<>>
                        THEN Append(words, LyricsWord(word_start, word_end, word_str))
                        ELSE words
  IN IF toks = <<>> THEN with(NoTime)
     ELSE IF Head(toks).kind = "text"
     THEN WordParts(words, Tail(toks), word_str \o Head(toks).text, start)
     ELSE WordParts(with(StampMs(Head(toks))), Tail(toks), <<>>, start)

\* The stamps a line of text begins with.
RECURSIVE LeadingStamps(_)
LeadingStamps(toks) ==
  IF toks = <<>> \/ Head(toks).kind # "[" THEN <<>>
  ELSE << StampMs(Head(toks)) >> \o LeadingStamps(Tail(toks))

\* parsers/lrc.py lines 24-64: the lines one line of text adds to data. A
\* content with "<" and ">" (lines 41-50) is not among the texts parsed here.
Lrc2DataLine(toks, source) ==
  LET stamps == LeadingStamps(toks)
      content == SubSeq(toks, Len(stamps) + 1, Len(toks))
      words == WordParts(<<>>, Tail(toks), <<>>, stamps[1])
  IN IF stamps = <<>> THEN <<>>
     ELSE IF source = "NE" /\ Len(stamps) >= 2
     THEN [k \in 1..Len(stamps) |->
             LyricsLine(stamps[k], NoTime, << LyricsWord(stamps[k], NoTime, RenderedText(content)) >>)]
     ELSE IF words # <<>> THEN << LyricsLine(stamps[1], NoTime, words) >> ELSE <<>>

\* sorted(..., key=start): stable.
RECURSIVE SortedByStart(_)
SortedByStart(data) ==
  IF data = <<>> THEN <<>>
  ELSE LET front == SortedByStart(SubSeq(data, 1, Len(data) - 1))
           last == data[Len(data)]
           k == Cardinality({i \in 1..Len(front) : front[i].start <= last.start})
       IN SubSeq(front, 1, k) \o << last >> \o SubSeq(front, k + 1, Len(front))

\* parsers/lrc.py lines 72-76
FillPrevEnd(data) ==
  [i \in 1..Len(data) |->
     IF i < Len(data) /\ data[i].end = NoTime THEN [data[i] EXCEPT !.end = data[i + 1].start]
     ELSE data[i]]

RECURSIVE Lrc2DataLines(_, _)
Lrc2DataLines(lines, source) ==
  IF lines = <<>> THEN <<>>
  ELSE Lrc2DataLine(Head(lines), source) \o Lrc2DataLines(Tail(lines), source)

\* parsers/lrc.lrc2data: the LyricsData (the tags are left out).
Lrc2Data(lines, source) ==
  SelectSeq(FillPrevEnd(SortedByStart(Lrc2DataLines(lines, source))), LAMBDA ln : ln.words # <<>>)

\* lrc2data(text) on the text render_lrc returned.
Lrc2DataRuns ==
  /\ lrcOut # NoLrc
  /\ parsed = NoData
  /\ parsed' = Lrc2Data(lrcOut, "None")
  /\ UNCHANGED << fetchVars, serverVars, concVars, kitVars, rin, aligned, lrcOut, raw >>

NextRender == RenderLrcRuns \/ Lrc2DataRuns

\* render_lrc, then lrc2data on its text.
SpecRender == InitRender /\ [][NextRender]_vars

(***************************************************************************)
(* The parsers behind get_lyrics (parsers/yrc.py, qrc.py, krc.py, lrc.py). *)
(***************************************************************************)
\* The most lines in a lyric payload.
MaxPayload == 2

\* A "[start,duration]..." line of a YRC, QRC or KRC payload: the words its
\* word pattern finds (start, duration, text) and, when it finds none, the
\* content as it stands.
PayloadLine(start, duration, words, content) ==
  [start |-> start, duration |-> duration, words |-> words, content |-> content]

PayloadWord(start, duration, text) == [start |-> start, duration |-> duration, text |-> text]

PayloadLines ==
  { PayloadLine(1, 2, << PayloadWord(1, 1, <<"a">>), PayloadWord(2, 1, <<"b">>) >>, <<>>),
    PayloadLine(2, 1, << PayloadWord(2, 1, <<"a">>) >>, <<>>),
    PayloadLine(3, 1, <<>>, <<"c">>),
    PayloadLine(2, 1, << PayloadWord(2, 1, <<>>) >>, <<>>) }

\* Lines of an LRC payload: stamped, stamped twice, and without a stamp.
LrcLines ==
  { << StampTok("[", 2), TextTok(<<"a">>) >>,
    << StampTok("[", 1), TextTok(<<"b">>) >>,
    << StampTok("[", 2), StampTok("[", 1), TextTok(<<"c">>) >>,
    << TextTok(<<"a">>) >> }

\* A provider has downloaded a payload: YRC or LRC (NE), QRC or LRC (QM),
\* KRC (KG), LRC (LRCLIB).
InitParse ==
  /\ raw \in [format : {"yrc", "qrc", "krc"}, lines : SeqsUpTo(PayloadLines, MaxPayload)]
             \cup [format : {"lrc", "lrc NE"}, lines : SeqsUpTo(LrcLines, MaxPayload)]
  /\ parsed = NoData
  /\ rin = [orig |-> <<>>, ts |-> NoData, mode |-> "line", include_translation |-> FALSE,
            offset_ms |-> 0, add_end_timestamp_line |-> FALSE]
  /\ aligned = <<>>
  /\ lrcOut = NoLrc
  /\ KitIdle
  /\ FetchIdle
  /\ ServerIdle
  /\ ConcIdle

\* The words of a payload line, their starts counted from `base`; the whole
\* content as one word when the pattern finds none.
TimedWords(r, base) ==
  IF r.words = <<>>
  THEN << LyricsWord(r.start, r.start + r.duration, r.content) >>
  ELSE [j \in 1..Len(r.words) |->
          LyricsWord(base + r.words[j].start, base + r.words[j].start + r.words[j].duration,
                     r.words[j].text)]

\* parsers/yrc.yrc2data
Yrc2Data(lines) ==
  [i \in 1..Len(lines) |->
     LyricsLine(lines[i].start, lines[i].start + lines[i].duration, TimedWords(lines[i], 0))]

\* parsers/qrc.qrc2data: a content that is one "(start,duration)" gives a
\* line without words.
Qrc2Data(lines) ==
  [i \in 1..Len(lines) |->
     LyricsLine(lines[i].start, lines[i].start + lines[i].duration,
                IF Len(lines[i].words) = 1 /\ lines[i].words[1].text = <<>> THEN <<>>
                ELSE TimedWords(lines[i], 0))]

\* parsers/krc.krc2bundle: orig; the word starts count from the line start.
Krc2Bundle(lines) ==
  [i \in 1..Len(lines) |->
     LyricsLine(lines[i].start, lines[i].start + lines[i].duration,
                TimedWords(lines[i], lines[i].start))]

\* get_lyrics hands the payload to the parser of its format and keeps the
\* result as bundle.orig.
GetLyricsParses ==
  /\ raw.format # "none"
  /\ parsed = NoData
  /\ parsed' = CASE raw.format = "yrc" -> Yrc2Data(raw.lines)
               [] raw.format = "qrc" -> Qrc2Data(raw.lines)
               [] raw.format = "krc" -> Krc2Bundle(raw.lines)
               [] raw.format = "lrc" -> Lrc2Data(raw.lines, "None")
               [] raw.format = "lrc NE" -> Lrc2Data(raw.lines, "NE")
  /\ UNCHANGED << fetchVars, serverVars, concVars, kitVars, rin, aligned, lrcOut, raw >>

NextParse == GetLyricsParses

\* One payload parsed.
SpecParse == InitParse /\ [][NextParse]_vars

(***************************************************************************)
(* decryptor/core.py: qrc_decrypt and krc_decrypt.  Bytes are the four     *)
(* values whose hex digits are 0 or f.  zlib and the UTF-8 codec are kept  *)
(* by their outcomes: a stream is a header byte, the text and an end       *)
(* byte; whatever follows the end byte is ignored, a stream without header *)
(* or end byte does not inflate, and a text holding a byte above 7f does   *)
(* not decode.                                                             *)
(***************************************************************************)
HexDigits == {"0", "f"}

Nibble(c) == IF c = "0" THEN 0 ELSE 15

NibbleXor(x, y) == IF x = y THEN 0 ELSE 15

\* a ^ b on the bytes 00, 0f, f0, ff
Xor(a, b) == 16 * NibbleXor(a \div 16, b \div 16) + NibbleXor(a % 16, b % 16)

ZHeader == 240

ZEnd == 255

Failed == [ok |-> FALSE, bytes |-> <<>>]

Done(bytes) == [ok |-> TRUE, bytes |-> bytes]

\* bytearray.fromhex: whitespace is skipped before a byte, two hex digits make
\* a byte, and anything else raises ValueError.
RECURSIVE FromHex(_)
FromHex(s) ==
  IF s = <<>> THEN Done(<<>>)
  ELSE IF s[1] = " " THEN FromHex(Tail(s))
  ELSE IF Len(s) >= 2 /\ s[1] \in HexDigits /\ s[2] \in HexDigits
  THEN LET rest == FromHex(Tail(Tail(s)))
       IN  IF rest.ok THEN Done(<<16 * Nibble(s[1]) + Nibble(s[2])>> \o rest.bytes) ELSE Failed
  ELSE Failed

\* str.strip() == ""
StripsToEmpty(s) == \A i \in 1..Len(s) : s[i] = " "

\* zlib.decompress
Decompress(data) ==
  IF Len(data) >= 2 /\ data[1] = ZHeader /\ \E i \in 2..Len(data) : data[i] = ZEnd
  THEN LET end == CHOOSE i \in 2..Len(data) : data[i] = ZEnd /\ \A j \in 2..(i - 1) : data[j] # ZEnd
       IN  Done(SubSeq(data, 2, end - 1))
  ELSE Failed

\* bytes.decode("utf-8")
Decode(bytes) == IF \A i \in 1..Len(bytes) : bytes[i] < 128 THEN Done(bytes) ELSE Failed

\* core.py line 14, sixteen bytes
KRC_KEY == <<240, 15, 255, 15, 0, 240, 15, 255, 240, 15, 255, 15, 0, 240, 15, 255>>

BlockSize == 8

\* The round keys tripledes_key_setup(QRC_KEY, DECRYPT) returns, as the pad
\* the block is combined with.
Schedule == <<15, 240, 0, 255, 15, 15, 240, 0>>

\* tripledes_crypt(data, schedule): the first eight bytes of data as one
\* block; fewer than eight bytes raise.
TripledesCrypt(data, schedule) ==
  IF Len(data) < BlockSize THEN Failed
  ELSE Done([i \in 1..BlockSize |-> Xor(data[BlockSize + 1 - i], schedule[i])])

\* core.py lines 37-38
RECURSIVE DecryptBlocks(_, _)
DecryptBlocks(data, schedule) ==
  IF data = <<>> THEN Done(<<>>)
  ELSE LET block == TripledesCrypt(data, schedule)
           rest == DecryptBlocks(SubSeq(data, BlockSize + 1, Len(data)), schedule)
       IN  IF block.ok /\ rest.ok THEN Done(block.bytes \o rest.bytes) ELSE Failed

DecryptRaised(kind) == [kind |-> kind, text |-> <<>>]

DecryptReturned(text) == [kind |-> "str", text |-> text]

\* core.py lines 30-43 and 54-60: the try block; except Exception turns
\* every fault into LyricsDecryptError.
InflateAndDecode(data) ==
  LET inflated == IF data.ok THEN Decompress(data.bytes) ELSE Failed
      text == IF inflated.ok THEN Decode(inflated.bytes) ELSE Failed
  IN  IF text.ok THEN DecryptReturned(text.bytes) ELSE DecryptRaised("LyricsDecryptError")

\* core.py lines 17-43, with local_qrc left at its default
qrc_decrypt(encrypted_qrc) ==
  IF encrypted_qrc.type = "NoneType"
     \/ (encrypted_qrc.type = "str" /\ StripsToEmpty(encrypted_qrc.data))
  THEN DecryptRaised("LyricsDecryptError")
  ELSE IF encrypted_qrc.type = "str"
  THEN LET encrypted_text_byte == FromHex(encrypted_qrc.data)
       IN  IF encrypted_text_byte.ok
           THEN InflateAndDecode(DecryptBlocks(encrypted_text_byte.bytes, Schedule))
           ELSE DecryptRaised("ValueError")
  ELSE IF encrypted_qrc.type \in {"bytearray", "bytes"}
  THEN InflateAndDecode(DecryptBlocks(encrypted_qrc.data, Schedule))
  ELSE DecryptRaised("LyricsDecryptError")

\* core.py lines 46-60
krc_decrypt(encrypted_lyrics) ==
  IF encrypted_lyrics.type \in {"bytearray", "bytes"}
  THEN LET encrypted_data == SubSeq(encrypted_lyrics.data, 5, Len(encrypted_lyrics.data))
           decrypted_data == [i \in 1..Len(encrypted_data) |->
                                Xor(encrypted_data[i], KRC_KEY[((i - 1) % Len(KRC_KEY)) + 1])]
       IN  InflateAndDecode(Done(decrypted_data))
  ELSE DecryptRaised("LyricsDecryptError")

\* What the upstream services send: a text deflated, then encrypted.
Texts == {<<>>, <<0>>, <<15>>, <<0, 15>>, <<15, 0, 15>>, <<15, 15, 0, 0, 15, 0, 15>>, <<240>>, <<0, 240>>}

Compress(text) == <<ZHeader>> \o text \o <<ZEnd>>

RECURSIVE ZeroPad(_)
ZeroPad(data) == IF Len(data) % BlockSize = 0 THEN data ELSE ZeroPad(Append(data, 0))

\* The inverse of DecryptBlocks on whole blocks.
EncryptBlocks(data, schedule) ==
  [i \in 1..Len(data) |->
     LET b == (i - 1) \div BlockSize
         k == ((i - 1) % BlockSize) + 1
     IN  Xor(data[b * BlockSize + BlockSize + 1 - k], schedule[BlockSize + 1 - k])]

QrcOf(text) == EncryptBlocks(ZeroPad(Compress(text)), Schedule)

KrcOf(text) ==
  LET z == Compress(text)
  IN  <<0, 15, 0, 15>> \o [i \in 1..Len(z) |-> Xor(z[i], KRC_KEY[((i - 1) % Len(KRC_KEY)) + 1])]

\* A payload, and the payload cut short, with every bit flipped, or empty.
Damaged(data) ==
  {data, <<>>} \cup (IF data = <<>> THEN {}
                     ELSE {SubSeq(data, 1, Len(data) - 1), SubSeq(data, 1, Len(data) \div 2),
                           [i \in 1..Len(data) |-> Xor(data[i], 255)]})

HexOf(b) == <<(IF b \div 16 = 0 THEN "0" ELSE "f"), (IF b % 16 = 0 THEN "0" ELSE "f")>>

RECURSIVE ToHex(_)
ToHex(data) == IF data = <<>> THEN <<>> ELSE HexOf(Head(data)) \o ToHex(Tail(data))

\* The hex text of a payload, and the text with a blank before it, its last
\* digit missing, a letter that is no hex digit in it, or only blanks.
HexTexts(data) ==
  LET h == ToHex(data)
  IN  {h, <<" ">> \o h, <<" ", " ">>}
        \cup (IF h = <<>> THEN {} ELSE {SubSeq(h, 1, Len(h) - 1), <<"g">> \o Tail(h), Append(h, "z")})

QrcPayloads == UNION {Damaged(QrcOf(t)) : t \in Texts}

KrcPayloads == UNION {Damaged(KrcOf(t)) : t \in Texts}

\* A call of qrc_decrypt or of krc_decrypt.
InitDecrypt ==
  /\ encrypted \in
       [fn : {"qrc_decrypt"}, type : {"bytes", "bytearray"}, data : QrcPayloads]
       \cup [fn : {"qrc_decrypt"}, type : {"str"}, data : UNION {HexTexts(d) : d \in QrcPayloads}]
       \cup [fn : {"krc_decrypt"}, type : {"bytes", "bytearray"}, data : KrcPayloads]
       \cup [fn : {"qrc_decrypt", "krc_decrypt"}, type : {"NoneType", "int"}, data : {<<>>}]
       \cup [fn : {"krc_decrypt"}, type : {"str"}, data : {ToHex(KrcOf(<<0>>))}]
  /\ decrypted = NoCall
  /\ ServeIdle
  /\ KgIdle
  /\ LyricIdle
  /\ FetchIdle
  /\ ServerIdle
  /\ ConcIdle

QrcDecryptRuns ==
  /\ encrypted.fn = "qrc_decrypt"
  /\ decrypted = NoCall
  /\ decrypted' = qrc_decrypt(encrypted)
  /\ UNCHANGED << fetchVars, serverVars, concVars, textVars, serveVars, kgVars, encrypted >>

KrcDecryptRuns ==
  /\ encrypted.fn = "krc_decrypt"
  /\ decrypted = NoCall
  /\ decrypted' = krc_decrypt(encrypted)
  /\ UNCHANGED << fetchVars, serverVars, concVars, textVars, serveVars, kgVars, encrypted >>

NextDecrypt == QrcDecryptRuns \/ KrcDecryptRuns

\* One payload decrypted.
SpecDecrypt == InitDecrypt /\ [][NextDecrypt]_vars

(***************************************************************************)
(* server.main: HTTPServer.serve_forever.  The server takes one waiting    *)
(* connection, runs the handler on it in the serving thread, and takes     *)
(* the next connection when the handler has returned.                      *)
(***************************************************************************)
ServedPaths == {"/health", "/fetch"}

\* A client connects and sends its request.
ClientSends(c) ==
  /\ conns[c].state = "idle"
  /\ \E path \in ServedPaths : conns' = [conns EXCEPT ![c] = [path |-> path, state |-> "waiting"]]
  /\ UNCHANGED current

\* server.py lines 358-359: serve_forever accepts the next connection when
\* it is not inside a handler.
Accepts(c) ==
  /\ current = 0
  /\ conns[c].state = "waiting"
  /\ conns' = [conns EXCEPT ![c].state = "handling"]
  /\ current' = c

\* Handler.do_GET or do_POST returns and the response is sent.
Answers(c) ==
  /\ conns[c].state = "handling"
  /\ conns' = [conns EXCEPT ![c].state = "answered"]
  /\ current' = IF current = c THEN 0 ELSE current

Connect == \E c \in Clients : ClientSends(c) /\ UNCHANGED << fetchVars, serverVars, concVars, textVars, cipherVars, kgVars >>

ServeForever == \E c \in Clients : Accepts(c) /\ UNCHANGED << fetchVars, serverVars, concVars, textVars, cipherVars, kgVars >>

HandlerReturns == \E c \in Clients : Answers(c) /\ UNCHANGED << fetchVars, serverVars, concVars, textVars, cipherVars, kgVars >>

InitServe == ServeIdle /\ CipherIdle /\ KgIdle /\ FetchIdle /\ ServerIdle /\ ConcIdle /\ LyricIdle

NextServe == Connect \/ ServeForever \/ HandlerReturns

\* The server and its clients.
SpecServe == InitServe /\ [][NextServe]_vars

(***************************************************************************)
(* providers/kg.py: KGProvider.search and its fallback.                    *)
(***************************************************************************)
\* What an endpoint answers: the HTTP status, whether the body is JSON, the
\* payload's error_code (0 when it has none) and the songs it lists.
Replies ==
  [status : {200, 500}, body : {"json", "text"}, error_code : {0, 200, 20028}, items : {<<>>, <<1>>}]

KgRaised(kind) == [kind |-> kind, songs |-> <<>>]

KgReturned(songs) == [kind |-> "list", songs |-> songs]

\* kg.py lines 95-100: KGProvider.request on the reply of the endpoint.
KgRequest(reply) ==
  IF reply.status # 200 THEN KgRaised("HTTPStatusError")
  ELSE IF reply.body # "json" THEN KgRaised("JSONDecodeError")
  ELSE IF reply.error_code \notin {0, 200} THEN KgRaised("APIRequestError")
  ELSE KgReturned(reply.items)

\* kg.py lines 145-160: _old_search on the reply of the mobile search host.
OldSearch(reply) ==
  IF reply.status # 200 THEN KgRaised("HTTPStatusError")
  ELSE IF reply.body # "json" THEN KgRaised("JSONDecodeError")
  ELSE KgReturned(reply.items)

\* A call of KGProvider.search.
InitKg ==
  /\ upstream \in [primary : Replies, legacy : Replies]
  /\ kgpc = "call"
  /\ requests = <<>>
  /\ found = NoSongs
  /\ CipherIdle
  /\ ServeIdle
  /\ LyricIdle
  /\ FetchIdle
  /\ ServerIdle
  /\ ConcIdle

\* kg.py lines 106-107 and 111-126: the complexsearch request returns and its
\* songs are the result.
KgSearchReturns ==
  /\ kgpc = "call"
  /\ KgRequest(upstream.primary).kind = "list"
  /\ requests' = Append(requests, "complexsearch")
  /\ found' = KgRequest(upstream.primary)
  /\ kgpc' = "done"
  /\ UNCHANGED << fetchVars, serverVars, concVars, textVars, cipherVars, serveVars, upstream >>

\* kg.py lines 108-110: the request raises APIRequestError and search goes on
\* to _old_search.
KgSearchFallsBack ==
  /\ kgpc = "call"
  /\ KgRequest(upstream.primary).kind = "APIRequestError"
  /\ requests' = Append(requests, "complexsearch")
  /\ kgpc' = "legacy"
  /\ UNCHANGED << fetchVars, serverVars, concVars, textVars, cipherVars, serveVars, upstream, found >>

\* kg.py lines 106-108: the request raises another exception, which except
\* APIRequestError does not catch.
KgSearchRaises ==
  /\ kgpc = "call"
  /\ KgRequest(upstream.primary).kind \notin {"list", "APIRequestError"}
  /\ requests' = Append(requests, "complexsearch")
  /\ found' = KgRaised(KgRequest(upstream.primary).kind)
  /\ kgpc' = "done"
  /\ UNCHANGED << fetchVars, serverVars, concVars, textVars, cipherVars, serveVars, upstream >>

\* kg.py line 110: return self._old_search(keyword, page=page)
KgOldSearchRuns ==
  /\ kgpc = "legacy"
  /\ requests' = Append(requests, "legacy")
  /\ found' = OldSearch(upstream.legacy)
  /\ kgpc' = "done"
  /\ UNCHANGED << fetchVars, serverVars, concVars, textVars, cipherVars, serveVars, upstream >>

NextKg == KgSearchReturns \/ KgSearchFallsBack \/ KgSearchRaises \/ KgOldSearchRuns

\* One KG search.
SpecKg == InitKg /\ [][NextKg]_vars

(***************************************************************************)
(* Selection of the best bundle.                                           *)
(***************************************************************************)
RankOf(i) == Rank(fetched[i], args.mode, args.translation, args.sources)

TieOnFirstThree(i, j) == SubSeq(RankOf(i), 1, 3) = SubSeq(RankOf(j), 1, 3)

PositionIn(sources, src) == CHOOSE k \in 1..Len(sources) : sources[k] = src /\ \A m \in 1..(k - 1) : sources[m] # src

\* C1: the bundle fetch_lyrics_bundle returns is a fetched one whose rank
\* (score, verbatim bonus, translation bonus, source priority) no other
\* fetched bundle exceeds in lexicographic order, and no fetched bundle that
\* ties with it on the first three components has a source standing earlier
\* in the caller's sources.
C1_ReturnsMaximalRank ==
  result.kind = "bundle" =>
    \E i \in 1..Len(fetched) :
      /\ fetched[i].bundle.song = result.bundle.song
      /\ \A j \in 1..Len(fetched) :
           /\ ~TupleLess(RankOf(i), RankOf(j))
           /\ TieOnFirstThree(i, j) =>
                PositionIn(args.sources, fetched[i].bundle.song.source)
                  <= PositionIn(args.sources, fetched[j].bundle.song.source)

\* Two fetched bundles of different sources tie on score and both bonuses,
\* and a bundle was returned.
C1_Witness ==
  /\ result.kind = "bundle"
  /\ \E i, j \in 1..Len(fetched) :
       /\ fetched[i].bundle.song.source # fetched[j].bundle.song.source
       /\ TieOnFirstThree(i, j)
       /\ RankOf(i)[2] = 1
       /\ RankOf(i)[3] = 1

(***************************************************************************)
(* Not-found.                                                              *)
(***************************************************************************)
NotFoundExactly ==
  /\ result.kind = "LyricsNotFoundError" <=> (~hit \/ ~gotOrig)
  /\ result.kind \in {"LyricsNotFoundError", "bundle"}

\* C2: for a title that is not blank, max_candidates > 0 and translation
\* "none", the call ends in LyricsNotFoundError exactly when no search result
\* scored min_score or more or no get_lyrics call on a kept candidate returned
\* a non-empty orig; in every other case it returns a bundle, whatever the ts.
C2_NotFoundExactly ==
  (pc = "done" /\ Title # <<>> /\ args.max_candidates > 0 /\ args.translation = "none")
    => NotFoundExactly

\* A candidate scored enough, a get_lyrics call raised, none returned an orig.
C2_Witness ==
  /\ pc = "done"
  /\ args.translation = "none"
  /\ result.kind = "LyricsNotFoundError"
  /\ hit
  /\ "get_lyrics" \in raisedIn

\* C2 as stated, for every max_candidates a caller may pass.
C2_AsStated ==
  (pc = "done" /\ Title # <<>> /\ args.translation = "none") => NotFoundExactly

(***************************************************************************)
(* Provider errors during the candidate scan.                              *)
(***************************************************************************)
\* C3: a search that raised (or a provider that could not be obtained) has
\* not kept any later source of the same keyword from being searched, a
\* get_lyrics that raised has not kept any later candidate from being tried,
\* and LyricsNotFoundError is raised only when no get_lyrics call returned a
\* non-empty orig.
C3_ErrorsDoNotStopScan ==
  /\ \A k \in 1..Len(Keywords) : \A i \in 1..Len(args.sources) :
       (k < kwIdx \/ (k = kwIdx /\ i < srcIdx)) => InSeq(searchCalls, <<k, i>>)
  /\ \A c \in 1..Len(candidates) :
       (c < candIdx \/ pc \in {"translate", "done"}) => InSeq(lyricsCalls, c)
  /\ result.kind = "LyricsNotFoundError" => ~gotOrig

\* The first source's search raised and the second source gave both
\* candidates; get_lyrics raised for the first candidate and the second
\* candidate's bundle was returned.
C3_Witness ==
  /\ pc = "done"
  /\ result.kind = "bundle"
  /\ kwIdx = 1
  /\ Len(args.sources) = 2
  /\ raisedIn = {"search", "get_lyrics"}
  /\ Len(candidates) = 2
  /\ candidates[1].song.source = args.sources[2]
  /\ candidates[2].song.source = args.sources[2]
  /\ Len(fetched) = 1
  /\ fetched[1].cand = candidates[2]

(***************************************************************************)
(* The translation client.                                                 *)
(***************************************************************************)
\* The ts the selected bundle came with from its provider.
SelectedHadNoTs ==
  \E i \in 1..Len(fetched) : fetched[i].bundle.song = best.song /\ fetched[i].bundle.ts = NoData

LrcTexts == {output, resp.lrc, resp.lrc_orig, resp.lrc_trans}

\* C4: no LRC text handed out has a line rendered from a lyric line whose
\* joined text is "//".
C4_NoPlaceholderLine ==
  \A text \in LrcTexts : \A i \in 1..Len(text) : RenderedText(text[i]) # <<"/", "/">>

(***************************************************************************)
(* The provider registry and POST /search.                                 *)
(***************************************************************************)
\* C7: at most one provider instance is ever constructed per source, and
\* the calls that asked the registry for one source hold the same instance.
C7_OneInstancePerSource ==
  /\ \A src \in Source : constructed[src] <= 1
  /\ \A v, w \in 1..Len(workers) :
       (workers[v].src = workers[w].src /\ workers[v].provider # 0 /\ workers[w].provider # 0)
         => workers[v].provider = workers[w].provider

\* C8: the rows of a search response stand by score descending, and rows of
\* equal score by source ordinal, whatever order the searches completed in.
C8_RowsByScoreThenSource ==
  resp.status = 200 =>
    \A i, j \in 1..Len(resp.results) :
      i < j =>
        \/ resp.results[i].score > resp.results[j].score
        \/ /\ resp.results[i].score = resp.results[j].score
           /\ SourceOrdinal(resp.results[i].source) <= SourceOrdinal(resp.results[j].source)

\* The requested entries whose search raised.
Failing == {w \in 1..Len(workers) : workers[w].error}

FailingSources == {workers[w].src : w \in Failing}

Bootstrapping == {t \in 1..Len(thr) : thr[t].at = "bootstrap"}

\* C5: on one provider instance at most one bootstrap is under way; while
\* it is, its thread holds the lock and every other caller is outside init
\* or waiting for the lock; and no bootstrap request is sent after one has
\* succeeded (for NE: before the session it gave has run out).
C5_OneBootstrap ==
  /\ Cardinality(Bootstrapping) <= 1
  /\ \A t \in Bootstrapping :
       /\ lock = t
       /\ \A u \in 1..Len(thr) : u # t => thr[u].at \in {"idle", "acquire"}
  /\ \A t \in 1..Len(thr) : ~thr[t].late

\* A bootstrap has succeeded, a caller is inside it again after the NE
\* session ran out, and the other caller waits for the lock.
C5_Witness ==
  /\ prov.kind = "NE"
  /\ lastBoot.ok
  /\ Bootstrapping # {}
  /\ \E u \in 1..Len(thr) : thr[u].at = "acquire"

(***************************************************************************)
(* The cache under concurrent access.                                      *)
(***************************************************************************)
\* C6: while the entry stored by the last completed set has not run out it
\* is in the cache, and every get that started after that set and has
\* returned has returned its value.
C6_SetSurvivesGet ==
  Live(lastSet, now) =>
    /\ cacheData = lastSet
    /\ \A t \in 1..Len(thr) :
         (thr[t].at = "idle" /\ thr[t].ret # NoRet /\ thr[t].saw = lastSet)
           => thr[t].ret = lastSet[1].value

(***************************************************************************)
(* HTTP status codes.                                                      *)
(***************************************************************************)
Routed ==
  \/ req.method = "GET" /\ req.path = "/health"
  \/ req.method = "POST" /\ req.path \in valid_paths

\* C11: every response has status 200, 400 or 404, and it has 404 exactly
\* when the request's path is not a known route.
C11_StatusByRoute ==
  resp # NoResponse =>
    /\ resp.status \in {200, 400, 404}
    /\ resp.status = 404 <=> ~Routed

EnhancedPost == req.method = "POST" /\ req.path \in valid_paths /\ req.mode = "enhanced"

\* C12: every step the server takes for a POST to one of the five routes
\* whose body has mode "enhanced" answers 400, and after it no provider has
\* been constructed and no search or get_lyrics call has been made.
C12_EnhancedRefused ==
  [][EnhancedPost =>
       /\ resp'.status = 400
       /\ searchCalls' = <<>> /\ lyricsCalls' = <<>> /\ workers' = <<>>
       /\ PROVIDERS_fetch' = {}
       /\ PROVIDERS_server' = [s \in Source |-> 0]]_vars

C12_Witness == EnhancedPost /\ req.path = "/fetch_separate" /\ resp.status = 400

NamesUnknownSource ==
  \/ \E i \in 1..Len(req.sources) : req.sources[i] \notin Source
  \/ req.path \in ByIdPaths /\ req.source \notin Source \cup {""}

\* C13: a POST to one of the five routes that names a source outside
\* {LRCLIB, QM, KG, NE} is answered with 400.
C13_UnknownSourceRefused ==
  (req.method = "POST" /\ req.path \in valid_paths /\ NamesUnknownSource /\ resp # NoResponse)
    => resp.status = 400

(***************************************************************************)
(* Alignment of the translation.                                           *)
(***************************************************************************)
Aligning == lrcOut # NoLrc /\ rin.include_translation /\ Truthy(rin.ts)

ExactMatched(i) == rin.orig[i].start # NoTime /\ HasStart(rin.ts, rin.orig[i].start)

\* C14: align_translation maps every orig index whose start is not null and
\* is the start of some ts line to a ts line with exactly that start.
C14_ExactMatchKept ==
  Aligning =>
    \A i \in 1..Len(rin.orig) :
      ExactMatched(i) =>
        /\ i \in DOMAIN aligned
        /\ \E j \in 1..Len(rin.ts) : aligned[i] = rin.ts[j] /\ rin.ts[j].start = rin.orig[i].start

\* The same-length tier ran beside an exact match that it would have
\* replaced by a line of another start.
C14_Witness ==
  /\ Aligning
  /\ Len(rin.orig) = Len(rin.ts)
  /\ \E i \in 1..Len(rin.orig) : ~ExactMatched(i)
  /\ \E i \in 1..Len(rin.orig) :
       ExactMatched(i) /\ rin.ts[i].start # rin.orig[i].start /\ aligned[i].start = rin.orig[i].start

\* C15: when orig and ts have the same length, every orig index that has no
\* exact match is mapped to the ts line at the same index.
C15_SameLengthByIndex ==
  (Aligning /\ Len(rin.orig) = Len(rin.ts)) =>
    \A i \in 1..Len(rin.orig) :
      ~ExactMatched(i) => i \in DOMAIN aligned /\ aligned[i] = rin.ts[i]

\* An index without an exact match went to ts[i] although another ts line
\* is nearer in start.
C15_Witness ==
  /\ Aligning
  /\ Len(rin.orig) = Len(rin.ts)
  /\ \E i \in 1..Len(rin.orig) :
       /\ ~ExactMatched(i)
       /\ rin.orig[i].start # NoTime
       /\ aligned[i] = rin.ts[i]
       /\ \E j \in 1..Len(rin.ts) :
            /\ rin.ts[j].start # NoTime
            /\ rin.ts[i].start = NoTime
               \/ Abs(rin.ts[j].start - rin.orig[i].start) < Abs(rin.ts[i].start - rin.orig[i].start)

(***************************************************************************)
(* The stamps of the rendered text.                                        *)
(***************************************************************************)
Rendered == lrcOut # NoLrc

\* orig is sorted ascending by start (no start is null).
OrigAscending ==
  /\ \A i \in 1..Len(rin.orig) : rin.orig[i].start # NoTime
  /\ \A i \in 1..(Len(rin.orig) - 1) : rin.orig[i].start <= rin.orig[i + 1].start

\* C16: for an orig sorted ascending by start, the leading stamps of the
\* rendered original and translation lines never decrease from one line to
\* the next.
C16_StampsNonDecreasing ==
  (Rendered /\ OrigAscending /\ ~rin.add_end_timestamp_line) =>
    \A k \in 1..(Len(lrcOut) - 1) : lrcOut[k][1].t <= lrcOut[k + 1][1].t

\* Every start and end of a line or word of orig and ts.
SourceTimes ==
  LET lines == {rin.orig[i] : i \in 1..Len(rin.orig)}
               \cup (IF rin.ts = NoData THEN {} ELSE {rin.ts[i] : i \in 1..Len(rin.ts)})
  IN UNION { {ln.start, ln.end} \cup UNION { {ln.words[j].start, ln.words[j].end} : j \in 1..Len(ln.words) }
             : ln \in lines } \ {NoTime}

\* The rendered lines are those of orig, one for one, each word between its
\* stamps.
WordByWord ==
  /\ Rendered
  /\ rin.mode = "verbatim"
  /\ aligned = <<>>
  /\ \A i \in 1..Len(rin.orig) : \A j \in 1..Len(rin.orig[i].words) :
       rin.orig[i].words[j].start # NoTime /\ rin.orig[i].words[j].end # NoTime

\* The position in rendered line i of the text of its j-th word.
TextPosition(i, j) ==
  CHOOSE p \in 1..Len(lrcOut[i]) :
    /\ lrcOut[i][p].kind = "text"
    /\ Cardinality({q \in 1..p : lrcOut[i][q].kind = "text"}) = j

C18_RoundTrip ==
  (WordByWord /\ OrigAscending /\ rin.offset_ms = 0 /\ parsed # NoData) =>
    /\ Len(parsed) = Len(rin.orig)
    /\ \A i \in 1..Len(rin.orig) :
         /\ parsed[i].start = rin.orig[i].start
         /\ parsed[i].words = rin.orig[i].words

(***************************************************************************)
(* Line order after parsing.                                               *)
(***************************************************************************)
\* C17: whichever parser produced orig, its timed lines are in ascending
\* order of start.
C17_OrigAscending ==
  (raw.format # "none" /\ parsed # NoData) =>
    \A i, j \in 1..Len(parsed) :
      (i < j /\ parsed[i].start # NoTime /\ parsed[j].start # NoTime)
        => parsed[i].start <= parsed[j].start

(***************************************************************************)
(* Expiry in the cache.                                                    *)
(***************************************************************************)
\* The last completed set stored an entry with a null expire_at.
NeverExpires == lastSet # <<>> /\ lastSet[1].expire_at = NoTime

\* C20: a get that finds its entry's expire_at at or before the current time
\* does not return the value but removes the entry and returns the default;
\* and an entry stored with a null expire_at, while it is the last one
\* stored, is in the map and is what every get started since has returned.
C20_GetHonoursExpiry ==
  /\ [][\A t \in 1..Len(thr) :
         /\ (thr[t].at = "check" /\ thr[t].ent # <<>> /\ ~Live(thr[t].ent, now) /\ thr'[t] # thr[t])
              => thr'[t].at = "pop"
         /\ (thr[t].at = "pop" /\ thr'[t] # thr[t])
              => cacheData' = <<>> /\ thr'[t].ret = 0]_vars
  /\ [](NeverExpires =>
         /\ cacheData = lastSet
         /\ \A t \in 1..Len(thr) :
              (thr[t].at = "idle" /\ thr[t].ret # NoRet /\ thr[t].saw = lastSet)
                => thr[t].ret = lastSet[1].value)

(***************************************************************************)
(* Provider faults during the candidate scan.                              *)
(***************************************************************************)
\* C21: a parameter error raised by get_lyrics because the candidate lacks a
\* required field ends the call with that error reaching the caller; the
\* other provider faults are skipped.
C21_ParamsErrorPropagates ==
  "APIParamsError" \in raisedIn => pc = "done" /\ result = Raised("APIParamsError")

(***************************************************************************)
(* The decryptors.                                                         *)
(***************************************************************************)
\* The text whose payload the call was given, if the argument is one.
PlainOf(enc) ==
  {t \in Texts :
     \/ enc.fn = "qrc_decrypt" /\ enc.type \in {"bytes", "bytearray"} /\ enc.data = QrcOf(t)
     \/ enc.fn = "qrc_decrypt" /\ enc.type = "str" /\ FromHex(enc.data) = Done(QrcOf(t))
     \/ enc.fn = "krc_decrypt" /\ enc.type \in {"bytes", "bytearray"} /\ enc.data = KrcOf(t)}

\* C22: a call of qrc_decrypt or krc_decrypt ends either with the whole text
\* that was deflated and encrypted, or with LyricsDecryptError; no other
\* exception escapes.
C22_TextOrDecryptError ==
  decrypted # NoCall =>
    /\ decrypted.kind \in {"str", "LyricsDecryptError"}
    /\ decrypted.kind = "str" => decrypted.text \in PlainOf(encrypted)

(***************************************************************************)
(* Requests served side by side.                                           *)
(***************************************************************************)
\* C23: each request is served on its own thread: a request that is waiting
\* can be accepted whether or not another request is still being handled.
C23_AcceptedWhileHandling ==
  \A c \in Clients : conns[c].state = "waiting" => ENABLED Accepts(c)

(***************************************************************************)
(* The order of the searches.                                              *)
(***************************************************************************)
LastCall(calls) == calls[Len(calls)]

\* C24: the keywords are "{artist} - {title}", "{artist} {title}", "{title}"
\* in this order (the title alone when there is no artist); the searches
\* run keyword by keyword and, within a keyword, source by source over every
\* configured source; and a search under another keyword than the one before
\* is made only while no search has returned a candidate scoring min_score
\* or more.
C24_KeywordsInOrder ==
  /\ [](/\ Title # <<>> =>
             Keywords = IF TruthyText(Artist)
                        THEN << Artist \o <<" ", "-", " ">> \o Title, Artist \o <<" ">> \o Title, Title >>
                        ELSE << Title >>
        /\ \A n \in 1..Len(searchCalls) :
             /\ searchCalls[n][1] \in 1..Len(Keywords)
             /\ n = 1 => searchCalls[n] = <<1, 1>>
             /\ n > 1 =>
                  LET p == searchCalls[n - 1]
                  IN  searchCalls[n] = IF p[2] < Len(args.sources) THEN <<p[1], p[2] + 1>>
                                       ELSE <<p[1] + 1, 1>>
        /\ pc \in {"lyrics", "translate"} => LastCall(searchCalls)[2] = Len(args.sources))
  /\ [][Len(searchCalls') > Len(searchCalls) /\ hit =>
          /\ searchCalls # <<>>
          /\ LastCall(searchCalls')[1] = LastCall(searchCalls)[1]]_vars

\* The first keyword gave nothing from either source; under the second
\* keyword the first source gave a candidate, the second source was still
\* searched, and the third keyword never was.
C24_Witness ==
  /\ pc = "done"
  /\ Len(Keywords) = 3
  /\ searchCalls = << <<1, 1>>, <<1, 2>>, <<2, 1>>, <<2, 2>> >>
  /\ hit
  /\ Len(candidates) = 1
  /\ candidates[1].song.source = args.sources[1]
  /\ result.kind = "bundle"

(***************************************************************************)
(* The candidates get_lyrics is called on.                                 *)
(***************************************************************************)
\* The candidate of the n-th get_lyrics call.
Tried(n) == candidates[lyricsCalls[n]]

\* C25: the kept candidates have pairwise different fingerprints, each with
\* the score of its fingerprint (the most any instance of it scores);
\* get_lyrics is called on at most max_candidates candidates of pairwise
\* different fingerprints, each scoring min_score or more, in non-increasing
\* order of score, and every kept candidate scoring strictly more than the
\* one of a call was tried before that call.
C25_TopCandidatesTried ==
  /\ \A i, j \in 1..Len(scored) : i # j => SongKey(scored[i].song) # SongKey(scored[j].song)
  /\ \A i \in 1..Len(scored) :
       scored[i].score = ScoreCandidate(Title, Artist, scored[i].song.title, scored[i].song.artist)
  /\ Len(lyricsCalls) <= args.max_candidates
  /\ \A n \in 1..Len(lyricsCalls) :
       /\ lyricsCalls[n] \in 1..Len(candidates)
       /\ Tried(n).score >= MinScore
       /\ \A m \in 1..(n - 1) :
            /\ SongKey(Tried(m).song) # SongKey(Tried(n).song)
            /\ Tried(m).score >= Tried(n).score
       /\ \A i \in 1..Len(scored) :
            scored[i].score > Tried(n).score => \E m \in 1..(n - 1) : Tried(m) = scored[i]

\* Three songs were kept, the lower-scored one found first; with
\* max_candidates 2 the two higher-scored ones were tried, in that order.
C25_Witness ==
  /\ pc = "done"
  /\ Len(scored) = 3
  /\ scored[1].score < scored[2].score
  /\ args.max_candidates = 2
  /\ Len(lyricsCalls) = 2
  /\ Tried(1).score > scored[1].score
  /\ Tried(2) # scored[1]

(***************************************************************************)
(* The verbatim bonus.                                                     *)
(***************************************************************************)
\* A line of more than one word with a word that has a start.
WordTimed(line) ==
  Len(line.words) > 1 /\ \E j \in 1..Len(line.words) : line.words[j].start # NoTime

\* C26: the second component of a fetched bundle's rank is 1 exactly when
\* mode is not "line" and some line of its orig has more than one word and
\* carries a word timestamp, and is 0 otherwise.
C26_VerbatimBonus ==
  \A i \in 1..Len(fetched) :
    RankOf(i)[2] = IF /\ args.mode # "line"
                      /\ \E l \in 1..Len(fetched[i].bundle.orig) : WordTimed(fetched[i].bundle.orig[l])
                   THEN 1 ELSE 0

\* In verbatim mode two bundles were fetched and ranked: one of a line with
\* two timed words (bonus 1), one of a line with a single timed word
\* (bonus 0).
C26_Witness ==
  /\ pc = "done"
  /\ args.mode = "verbatim"
  /\ Len(fetched) = 2
  /\ fetched[1].bundle.orig = <<LnOne>>
  /\ fetched[2].bundle.orig = <<LnVerb>>
  /\ RankOf(1)[2] = 0
  /\ RankOf(2)[2] = 1
  /\ result.kind = "bundle"

(***************************************************************************)
(* The nearest-start tier of align_translation.                            *)
(***************************************************************************)
\* align_translation ran on tracks of different length.
AligningUnequal == Aligning /\ Len(rin.orig) # Len(rin.ts)

TsTimed == {j \in 1..Len(rin.ts) : rin.ts[j].start # NoTime}

\* aligned[i] is a timed ts line no other timed ts line is nearer than.
MappedToNearest(i) ==
  /\ i \in DOMAIN aligned
  /\ \E j \in TsTimed :
       /\ aligned[i] = rin.ts[j]
       /\ \A k \in TsTimed :
            Abs(rin.ts[j].start - rin.orig[i].start) <= Abs(rin.ts[k].start - rin.orig[i].start)

\* The position of orig line i in the text: one line per orig line before it
\* and one per translation emitted before it.
BodyPosition(i) == i + Cardinality({k \in DOMAIN aligned : k < i})

\* The text has the orig lines, each mapped one followed by its translation
\* line, and nothing else.
TranslationsAfterMapped ==
  ~rin.add_end_timestamp_line =>
    /\ Len(lrcOut) = Len(rin.orig) + Cardinality(DOMAIN aligned)
    /\ \A i \in DOMAIN aligned :
         RenderedText(lrcOut[BodyPosition(i) + 1]) = LineText(aligned[i])

\* C27 as stated: with tracks of different length every orig line that has
\* a start and no exact match is mapped to a nearest timed ts line.
C27_AsStated ==
  AligningUnequal =>
    \A i \in 1..Len(rin.orig) :
      (~ExactMatched(i) /\ rin.orig[i].start # NoTime) => MappedToNearest(i)

\* C27: with tracks of different length, an orig line that has a start and
\* no exact match is mapped to a nearest timed ts line when ts has a timed
\* line and stays unmapped when ts has none; an orig line without a start
\* stays unmapped; and the rendered text has a translation line directly
\* after an original line for the mapped indices only.
C27_NearestWhenTimed ==
  AligningUnequal =>
    /\ \A i \in 1..Len(rin.orig) :
         /\ (~ExactMatched(i) /\ rin.orig[i].start # NoTime /\ TsTimed # {}) => MappedToNearest(i)
         /\ (~ExactMatched(i) /\ rin.orig[i].start # NoTime /\ TsTimed = {}) => i \notin DOMAIN aligned
         /\ rin.orig[i].start = NoTime => i \notin DOMAIN aligned
    /\ TranslationsAfterMapped

\* Of two orig lines the first has a start without an exact match and got
\* the one ts line, which is timed; the second has no start and got none;
\* the text has three lines.
C27_Witness ==
  /\ AligningUnequal
  /\ ~rin.add_end_timestamp_line
  /\ Len(rin.orig) = 2
  /\ Len(rin.ts) = 1
  /\ rin.orig[1].start = 3
  /\ rin.orig[2].start = NoTime
  /\ rin.ts[1].start = 4
  /\ DOMAIN aligned = {1}
  /\ Len(lrcOut) = 3

(***************************************************************************)
(* The KG search fallback.                                                 *)
(***************************************************************************)
\* The complexsearch request failed: a status that is not 2xx, a body that
\* is not JSON, or a protocol error code.
PrimaryFailed ==
  \/ upstream.primary.status # 200
  \/ upstream.primary.body # "json"
  \/ upstream.primary.error_code \notin {0, 200}

\* C28: when KGProvider.search has ended, the legacy search was attempted
\* and its result is the result of the call if the primary request failed,
\* and was not attempted if the primary request succeeded.
C28_LegacyOnEveryFailure ==
  kgpc = "done" =>
    IF PrimaryFailed
    THEN requests = <<"complexsearch", "legacy">> /\ found = OldSearch(upstream.legacy)
    ELSE requests = <<"complexsearch">>

(***************************************************************************)
(* The orig of a returned bundle.                                          *)
(***************************************************************************)
\* C29: a bundle fetch_lyrics_bundle returns has an orig that is not empty,
\* the placeholder cleanup included.
C29_ReturnedOrigNonEmpty ==
  result.kind = "bundle" => Truthy(result.bundle.orig)

(***************************************************************************)
(* The two-track endpoints.                                                *)
(***************************************************************************)
\* C30: a 200 response of /fetch_separate or /fetch_by_id_separate always has
\* lrc_orig, and has lrc_trans only if the request's translation is not
\* "none" (and, for /fetch_separate, the returned bundle's ts is not empty).
C30_TwoTrackAgree ==
  (req.path \in {"/fetch_separate", "/fetch_by_id_separate"} /\ resp.status = 200) =>
    /\ resp.lrc_orig # NoLrc
    /\ resp.lrc_trans # NoLrc =>
         /\ req.translation # "none"
         /\ req.path = "/fetch_separate" => Truthy(result.bundle.ts)

====
